---- MODULE Spec2Model ----
(***************************************************************************)
(* The Clawdpredict platform: the agent, market and prediction tables and  *)
(* the route handlers of platform/src/app/api that read and write them.    *)
(*                                                                         *)
(* Units.  pYes is kept in hundredths (0.37 is 37), a Brier contribution   *)
(* or score in ten-thousandths (0.25 is 2500), an accuracy in hundredths.  *)
(* A rationale is kept as its length.  A handler runs as the sequence of   *)
(* its database calls: every awaited prisma call that another request can  *)
(* interleave with is the end of one step.                                 *)
(***************************************************************************)
EXTENDS Integers, Sequences, FiniteSets, TLC

\* ------------------------------------------------------------- bounds

NumNames == 2        \* distinct agent names a client may ask for
NumMarkets == 1      \* seeded markets of the request-level specification
NumReq == 2          \* requests that can be in flight at once
MaxNow == 1          \* the clock runs 0..MaxNow
LbAgents == 2        \* agents of a leaderboard population
LbMarkets == 3       \* markets of a leaderboard population
ApiAgents == 2       \* agents of the population the other routes serve
ApiMarkets == 2      \* markets of that population
MaxComments == 1     \* comments stored
TopSmall == 3        \* markets of a small population of markets/top
TopOver == 2         \* markets beyond the limit in a large population
MaxAccepted == 101   \* 201 answers counted for the watched agent
MaxFirings == 3      \* firings of the heartbeat timer
MaxTickMarkets == 2  \* markets a tick fetches
NumWorkers == 2      \* markets a tick processes in parallel
MaxDaily == 2        \* the largest max_daily_predictions configured
MaxAttempts == 2     \* attempts at a submission that fails transiently
ClockStep == 12      \* hours the skill's clock advances at a time
MaxClock == 36       \* the skill's clock runs 0..MaxClock hours

\* --------------------------------------------------- program constants

MaxRationale == 800  \* rationale.length > 800 is refused
DefaultBrier == 2500 \* let brierScore = 0.25
BrierScale == 10000  \* Math.round(brierScore * 10000) / 10000
AccuracyScale == 100 \* Math.round(accuracy * 100) / 100
TopLimit == 100      \* take: 100
AddressHexLen == 40  \* [a-fA-F0-9]{40}
MaxComment == 1000   \* content.length > 1000 is refused
MinComment == 10     \* content.length < 10 is refused
RateLimit == 100     \* Predictions: 100/hour per agent
\* SafetyConfig of the integration guide; probabilities in thousandths,
\* the confidence in hundredths.
min_confidence_threshold == 60
min_rationale_length == 50
max_rationale_length == 800
min_probability == 10
max_probability == 990
DayHours == 24       \* the trailing window of the daily budget
ProbScale == 100     \* a probability of 1 in hundredths
KellyScale == 10000  \* a Kelly fraction of 1 in ten-thousandths

VARIABLES agents, markets, predictions, comments, now, req, lbResp, hourly,
          sent,
          sched, sink, clock, exec, workers, ev

\* The platform: its tables, its clock, the requests in flight and the last
\* leaderboard answer; hourly counts the 201 answers POST /predictions gave
\* the agent it watches since the hour began; sent holds what the last POST
\* /predictions sent, when that is recorded.
platformVars ==
    <<agents, markets, predictions, comments, now, req, lbResp, hourly, sent>>

\* The market-predictor skill: the heartbeat scheduler, the sink of its
\* ticks, the skill's clock, the submission executor and its callers, and the
\* call of the EV calculator.
skillVars == <<sched, sink, clock, exec, workers, ev>>

vars == <<platformVars, skillVars>>

Reqs == 1..NumReq
\* The last POST /predictions is not recorded.
NotRecording ==
    [recording |-> FALSE, token |-> 0, slug |-> 0, pYes |-> 0, rationale |-> 0]
\* No agent is watched.
NotWatching == [agent |-> 0, accepted |-> 0]
\* No GET /leaderboard has been answered yet.
NoLeaderboard == [served |-> FALSE, agents |-> << >>]
Null == "null"
\* Agent.evmAddress and a body's evmAddress are JSON values: the type and,
\* for a string, its characters.
NullAddress == [type |-> "null", chars |-> << >>]
\* No body has been read.
NoValue == [type |-> "none", chars |-> << >>]

\* ------------------------------------------------------------- inputs

\* body.name: 0 stands for a missing, empty or non-string name.
NameInputs == 0..NumNames
\* X-Agent-Token: 0 stands for an absent header; a token above the number of
\* registered agents is held by nobody.
TokenInputs == 0..NumNames
\* body.slug: 0 stands for a missing slug; NumMarkets + 1 names no market.
SlugInputs == 0..(NumMarkets + 1)
\* body.pYes in hundredths: -1 stands for a value below 0 or not a number.
\* body.rationale by its length: 0 stands for a missing or empty rationale.
\* The bodies a client sends: two valid ones, on the bounds of what the
\* handler accepts, and bodies invalid in pYes, in the rationale, or in both.
BodyInputs ==
    {[pYes |-> 0, rationale |-> 1],
     [pYes |-> 100, rationale |-> MaxRationale],
     [pYes |-> -1, rationale |-> 1],
     [pYes |-> 101, rationale |-> 1],
     [pYes |-> 0, rationale |-> 0],
     [pYes |-> 0, rationale |-> MaxRationale + 1],
     [pYes |-> 101, rationale |-> 0]}

\* A body that is not JSON: it has no pYes and no rationale to read.
MalformedBody == [pYes |-> 0 - 1, rationale |-> 0 - 1]

\* X-Agent-Token of a request to the other routes: 0 for an absent header,
\* ApiAgents + 1 for a token no agent holds.
ApiTokens == 0..(ApiAgents + 1)
\* A slug of such a request: 0 for a missing one, ApiMarkets + 1 for a slug
\* of no market.
ApiSlugs == 0..(ApiMarkets + 1)
\* body.content by its length: 0 for a missing or empty content.
ContentInputs == {0, MinComment - 1, MinComment, MaxComment + 1}

\* A string of n characters that cycles through digits and letters of both
\* cases.
HexString(n) ==
    [i \in 1..n |-> <<"0", "9", "a", "f", "A", "F">>[(i % 6) + 1]]

StringValue(chars) == [type |-> "string", chars |-> chars]

\* body.evmAddress: absent, null, a number, and strings that do and do not
\* match the address pattern.
AddressInputs ==
    {[type |-> "undefined", chars |-> << >>],
     NullAddress,
     [type |-> "number", chars |-> << >>],
     StringValue(<<"0", "x">> \o HexString(AddressHexLen)),
     StringValue(<<"0", "x">> \o [i \in 1..AddressHexLen |-> "b"]),
     StringValue(<<"0", "x">> \o HexString(AddressHexLen - 1)),
     StringValue(<<"0", "x">> \o HexString(AddressHexLen + 1)),
     StringValue(<<"0", "x">> \o HexString(AddressHexLen - 1) \o <<"g">>),
     StringValue(<<"0", "X">> \o HexString(AddressHexLen)),
     StringValue(HexString(AddressHexLen)),
     StringValue(<<" ", "0", "x">> \o HexString(AddressHexLen)),
     StringValue(<<"0", "x">> \o HexString(AddressHexLen) \o <<"\n">>),
     StringValue(<< >>)}

\* ------------------------------------------------------------- tables

\* Agent rows in insertion order; a row's id is its position.
AgentIds == DOMAIN agents

AgentByName(name) == {i \in AgentIds : agents[i].name = name}

AgentByToken(token) == {i \in AgentIds : agents[i].token = token}

getAgentFromTokenFindFirst(token) ==
    IF token = 0 THEN 0
    ELSE IF AgentByToken(token) = {}
         THEN (IF AgentIds = {} THEN 0 ELSE CHOOSE i \in AgentIds : TRUE)
    ELSE CHOOSE i \in AgentByToken(token) : TRUE

\* lib/auth.ts getAgentFromToken: the agent id, or 0 for null.
getAgentFromToken(token) ==
    IF token = 0 THEN 0
    ELSE IF AgentByToken(token) = {} THEN 0
    ELSE CHOOSE i \in AgentByToken(token) : TRUE

\* lib/auth.ts generateToken: 48 random characters, taken as a nonce: a
\* token no stored agent holds.
generateToken ==
    CHOOSE t \in 1..(Len(agents) + 1) : AgentByToken(t) = {}

\* prisma.market.findUnique({where: {slug}}): the market id, or 0 for null.
FindMarket(slug) == IF slug \in DOMAIN markets THEN slug ELSE 0

\* Rows of the Prediction table for one (agentId, marketId).
RowsOf(preds, a, m) == {p \in preds : p.agentId = a /\ p.marketId = m}

UpsertAlwaysCreates(preds, a, m, pYes, rationale) ==
    preds \cup {[agentId |-> a, marketId |-> m, pYes |-> pYes,
                 rationale |-> rationale]}

UpsertAnyAgent(preds, a, m, pYes, rationale) ==
    IF {p \in preds : p.marketId = m} # {}
    THEN {IF p.marketId = m
          THEN [p EXCEPT !.pYes = pYes, !.rationale = rationale]
          ELSE p : p \in preds}
    ELSE preds \cup {[agentId |-> a, marketId |-> m, pYes |-> pYes,
                      rationale |-> rationale]}

\* prisma.prediction.upsert on the unique key (agentId, marketId).
Upsert(preds, a, m, pYes, rationale) ==
    IF RowsOf(preds, a, m) # {}
    THEN {IF p \in RowsOf(preds, a, m)
          THEN [p EXCEPT !.pYes = pYes, !.rationale = rationale]
          ELSE p : p \in preds}
    ELSE preds \cup {[agentId |-> a, marketId |-> m, pYes |-> pYes,
                      rationale |-> rationale]}

\* ------------------------------------------------------- request slots

\* body: the records the answer carries; no record in an error answer.
IdleReq ==
    [op |-> "none", pc |-> "idle", name |-> 0, agentId |-> 0, marketId |-> 0,
     pYes |-> 0, rationale |-> 0, status |-> 0, body |-> {},
     evmAddress |-> NoValue]

\* A slot takes a request when it holds none.
Free(r) == req[r].pc = "idle"

\* The answer of slot r has been delivered; the slot is free again.
Return(r) ==
    /\ req[r].pc = "done"
    /\ req' = [req EXCEPT ![r] = IdleReq]
    /\ UNCHANGED <<agents, markets, predictions, comments, now, lbResp, hourly, sent, skillVars>>

\* ------------------------------------------------ POST /agents/register

RegisterStatusNoConflict(name) == IF name = 0 THEN 400 ELSE 0

\* The name check of the handler: 400, 409, or on to the create.
RegisterStatus(name) ==
    IF name = 0 THEN 400
    ELSE IF AgentByName(name) # {} THEN 409
    ELSE 0

\* request.json(), the name validation and prisma.agent.findUnique.
RegisterFind(r) ==
    /\ Free(r)
    /\ \E name \in NameInputs :
         IF RegisterStatus(name) # 0
         THEN req' = [req EXCEPT ![r] =
                        [IdleReq EXCEPT !.op = "register", !.pc = "done",
                                        !.status = RegisterStatus(name),
                                        !.name = name]]
         ELSE req' = [req EXCEPT ![r] = [IdleReq EXCEPT !.op = "register",
                                             !.pc = "create", !.name = name]]
    /\ UNCHANGED <<agents, markets, predictions, comments, now, lbResp, hourly, sent, skillVars>>

\* The unique indexes Agent_name_key and Agent_token_key.
AgentInsertable(name, token) ==
    AgentByName(name) = {} /\ AgentByToken(token) = {}

\* generateToken() and prisma.agent.create; a rejected insert throws and the
\* catch answers 500.
RegisterCreate(r) ==
    /\ req[r].pc = "create"
    /\ LET name == req[r].name
           token == generateToken
       IN IF AgentInsertable(name, token)
          THEN /\ agents' = Append(agents, [name |-> name, token |-> token,
                                         evmAddress |-> NullAddress])
               /\ req' = [req EXCEPT ![r] =
                            [IdleReq EXCEPT !.op = "register", !.pc = "done",
                                            !.status = 201, !.name = name,
                                            !.agentId = Len(agents) + 1]]
          ELSE /\ agents' = agents
               /\ req' = [req EXCEPT ![r] =
                            [IdleReq EXCEPT !.op = "register", !.pc = "done",
                                            !.status = 500, !.name = name]]
    /\ UNCHANGED <<markets, predictions, comments, now, lbResp, hourly, sent, skillVars>>

\* --------------------------------------------------- POST /predictions

\* request.json() throws on the body: the catch answers 500.
IsMalformed(pYes, rationale) == rationale < 0

PredictStatusNoEndCheck(token, slug, pYes, rationale) ==
    IF getAgentFromToken(token) = 0 THEN 401
    ELSE IF IsMalformed(pYes, rationale) THEN 500
    ELSE IF slug = 0 THEN 400
    ELSE IF pYes < 0 \/ pYes > 100 THEN 400
    ELSE IF rationale = 0 THEN 400
    ELSE IF rationale > MaxRationale THEN 400
    ELSE IF FindMarket(slug) = 0 THEN 404
    ELSE IF markets[FindMarket(slug)].resolvedOutcome # Null THEN 409
    ELSE 0

PredictStatusOpenInterval(token, slug, pYes, rationale) ==
    IF getAgentFromToken(token) = 0 THEN 401
    ELSE IF IsMalformed(pYes, rationale) THEN 500
    ELSE IF slug = 0 THEN 400
    ELSE IF pYes <= 0 \/ pYes >= 100 THEN 400
    ELSE IF rationale = 0 THEN 400
    ELSE IF rationale >= MaxRationale THEN 400
    ELSE IF FindMarket(slug) = 0 THEN 404
    ELSE IF markets[FindMarket(slug)].resolvedOutcome # Null THEN 409
    ELSE IF markets[FindMarket(slug)].endDate < now THEN 409
    ELSE 0

PredictStatusLookupFirst(token, slug, pYes, rationale) ==
    IF getAgentFromToken(token) = 0 THEN 401
    ELSE IF IsMalformed(pYes, rationale) THEN 500
    ELSE IF slug = 0 THEN 400
    ELSE IF FindMarket(slug) = 0 THEN 404
    ELSE IF pYes < 0 \/ pYes > 100 THEN 400
    ELSE IF rationale = 0 THEN 400
    ELSE IF rationale > MaxRationale THEN 400
    ELSE IF markets[FindMarket(slug)].resolvedOutcome # Null THEN 409
    ELSE IF markets[FindMarket(slug)].endDate < now THEN 409
    ELSE 0

\* The checks of the handler in their order: the status that ends the
\* request, or 0 when it goes on to the upsert.
PredictStatus(token, slug, pYes, rationale) ==
    IF getAgentFromToken(token) = 0 THEN 401
    ELSE IF IsMalformed(pYes, rationale) THEN 500
    ELSE IF slug = 0 THEN 400
    ELSE IF pYes < 0 \/ pYes > 100 THEN 400
    ELSE IF rationale = 0 THEN 400
    ELSE IF rationale > MaxRationale THEN 400
    ELSE IF FindMarket(slug) = 0 THEN 404
    ELSE IF markets[FindMarket(slug)].resolvedOutcome # Null THEN 409
    ELSE IF markets[FindMarket(slug)].endDate < now THEN 409
    ELSE 0

\* getAgentFromToken, the body validation, prisma.market.findUnique and the
\* resolved and ended checks.
PredictCheck(r) ==
    /\ Free(r)
    /\ \E token \in TokenInputs, slug \in SlugInputs,
          body \in BodyInputs \cup {MalformedBody} :
         LET pYes == body.pYes
             rationale == body.rationale
             status == PredictStatus(token, slug, pYes, rationale)
         IN /\ sent' = IF sent.recording
                       THEN [sent EXCEPT !.token = token, !.slug = slug,
                                         !.pYes = pYes,
                                         !.rationale = rationale]
                       ELSE sent
            /\ IF status # 0
               THEN req' = [req EXCEPT ![r] =
                              [IdleReq EXCEPT !.op = "predict", !.pc = "done",
                                              !.status = status,
                                              !.agentId = getAgentFromToken(token),
                                              !.marketId =
                                                IF status = 409
                                                THEN FindMarket(slug) ELSE 0]]
               ELSE req' = [req EXCEPT ![r] =
                              [IdleReq EXCEPT !.op = "predict", !.pc = "upsert",
                                              !.agentId = getAgentFromToken(token),
                                              !.marketId = FindMarket(slug),
                                              !.pYes = pYes,
                                              !.rationale = rationale]]
    /\ UNCHANGED <<agents, markets, predictions, comments, now, lbResp, hourly, skillVars>>

\* prisma.prediction.upsert and the 201 answer, which carries the row.
PredictUpsert(r) ==
    /\ req[r].pc = "upsert"
    /\ hourly.accepted < MaxAccepted
    /\ predictions' = Upsert(predictions, req[r].agentId, req[r].marketId,
                             req[r].pYes, req[r].rationale)
    /\ req' = [req EXCEPT ![r] =
                 [IdleReq EXCEPT !.op = "predict", !.pc = "done",
                                 !.status = 201, !.agentId = req[r].agentId,
                                 !.marketId = req[r].marketId,
                                 !.body = {[agentId |-> req[r].agentId,
                                            marketSlug |-> req[r].marketId,
                                            pYes |-> req[r].pYes,
                                            rationale |-> req[r].rationale]}]]
    /\ hourly' = IF req[r].agentId = hourly.agent
                 THEN [hourly EXCEPT !.accepted = @ + 1]
                 ELSE hourly
    /\ UNCHANGED <<comments, agents, markets, now, lbResp, sent, skillVars>>

\* ---------------------------------------------------- GET /leaderboard

PredictionsOf(preds, a) == {p \in preds : p.agentId = a}

ResolvedOfAll(preds, mkts, a) == PredictionsOf(preds, a)

\* agent.predictions.filter(p => p.market.resolvedOutcome !== null)
ResolvedOf(preds, mkts, a) ==
    {p \in PredictionsOf(preds, a) : mkts[p.marketId].resolvedOutcome # Null}

\* resolvedYes: p.market.resolvedOutcome === 'Yes'
ResolvedYes(mkts, p) == mkts[p.marketId].resolvedOutcome = "Yes"

calculateBrierContributionSwapped(pYes, resolvedYes) ==
    LET outcome == IF resolvedYes THEN 0 ELSE 100
    IN (pYes - outcome) * (pYes - outcome)

\* lib/brier.ts calculateBrierContribution: Math.pow(pYes - outcome, 2).
calculateBrierContribution(pYes, resolvedYes) ==
    LET outcome == IF resolvedYes THEN 100 ELSE 0
    IN (pYes - outcome) * (pYes - outcome)

\* brierData.reduce((sum, p) => sum + calculateBrierContribution(...), 0)
RECURSIVE TotalBrier(_, _)
TotalBrier(rows, mkts) ==
    IF rows = {} THEN 0
    ELSE LET p == CHOOSE x \in rows : TRUE
         IN calculateBrierContribution(p.pYes, ResolvedYes(mkts, p))
            + TotalBrier(rows \ {p}, mkts)

PredictedYesStrict(pYes) == pYes > 50

\* lib/brier.ts calculateAccuracy: const predictedYes = p.pYes >= 0.5
PredictedYes(pYes) == pYes >= 50

\* lib/brier.ts calculateAccuracy: the number of correct predictions.
CorrectCount(rows, mkts) ==
    Cardinality({p \in rows : PredictedYes(p.pYes) = ResolvedYes(mkts, p)})

\* Math.round(num / den) for num >= 0 and den > 0: halves round up.
MathRound(num, den) == (2 * num + den) \div (2 * den)

\* One element of agentStats: the record the handler builds for an agent.
AgentStats(ags, preds, mkts, a) ==
    LET resolved == ResolvedOf(preds, mkts, a)
        n == Cardinality(resolved)
    IN [agentId |-> a,
        agentName |-> ags[a].name,
        brierScore |-> IF n > 0 THEN MathRound(TotalBrier(resolved, mkts), n)
                       ELSE DefaultBrier,
        totalPredictions |-> Cardinality(PredictionsOf(preds, a)),
        resolvedPredictions |-> n,
        accuracy |-> IF n > 0
                     THEN MathRound(AccuracyScale * CorrectCount(resolved, mkts), n)
                     ELSE 0]

RankedAll(a) == TRUE

\* .filter(a => a.totalPredictions > 0)
Ranked(a) == a.totalPredictions > 0

CompareDescending(a, b) ==
    IF a.resolvedPredictions > 0 /\ b.resolvedPredictions = 0 THEN -1
    ELSE IF b.resolvedPredictions > 0 /\ a.resolvedPredictions = 0 THEN 1
    ELSE IF a.brierScore # b.brierScore THEN b.brierScore - a.brierScore
    ELSE b.totalPredictions - a.totalPredictions

CompareNoPriority(a, b) ==
    IF a.brierScore # b.brierScore THEN a.brierScore - b.brierScore
    ELSE b.totalPredictions - a.totalPredictions

CompareFewerFirst(a, b) ==
    IF a.resolvedPredictions > 0 /\ b.resolvedPredictions = 0 THEN -1
    ELSE IF b.resolvedPredictions > 0 /\ a.resolvedPredictions = 0 THEN 1
    ELSE IF a.brierScore # b.brierScore THEN a.brierScore - b.brierScore
    ELSE a.totalPredictions - b.totalPredictions

\* The comparator handed to .sort(): negative when a goes first.
Compare(a, b) ==
    IF a.resolvedPredictions > 0 /\ b.resolvedPredictions = 0 THEN -1
    ELSE IF b.resolvedPredictions > 0 /\ a.resolvedPredictions = 0 THEN 1
    ELSE IF a.brierScore # b.brierScore THEN a.brierScore - b.brierScore
    ELSE b.totalPredictions - a.totalPredictions

\* Array.prototype.sort is stable: an element goes behind the elements the
\* comparator does not put after it.
RECURSIVE Insert(_, _)
Insert(s, x) ==
    IF s = << >> THEN <<x>>
    ELSE IF Compare(s[Len(s)], x) > 0
         THEN Append(Insert(SubSeq(s, 1, Len(s) - 1), x), s[Len(s)])
         ELSE Append(s, x)

RECURSIVE Sort(_)
Sort(s) ==
    IF s = << >> THEN << >>
    ELSE Insert(Sort(SubSeq(s, 1, Len(s) - 1)), s[Len(s)])

RankZeroBased(index) == index - 1

\* rank: index + 1, for the 0-based index of .map(); positions here are 1-based.
Rank(index) == index

\* The agents array of the response.
Leaderboard(ags, preds, mkts) ==
    LET agentStats == [a \in 1..Len(ags) |-> AgentStats(ags, preds, mkts, a)]
        sorted == Sort(SelectSeq(agentStats, Ranked))
    IN [k \in 1..Len(sorted) |->
          [agentId |-> sorted[k].agentId,
           agentName |-> sorted[k].agentName,
           brierScore |-> sorted[k].brierScore,
           totalPredictions |-> sorted[k].totalPredictions,
           resolvedPredictions |-> sorted[k].resolvedPredictions,
           accuracy |-> sorted[k].accuracy,
           rank |-> Rank(k)]]

\* prisma.agent.findMany with the predictions and their markets, the
\* statistics, the sort and the answer.
GetLeaderboard ==
    /\ lbResp' = [served |-> TRUE,
                  agents |-> Leaderboard(agents, predictions, markets)]
    /\ UNCHANGED <<agents, markets, predictions, comments, now, req, hourly, sent, skillVars>>

\* ------------------------------------- the other authenticated routes
\* Each of these handlers reads the agent of the token and then makes its
\* last database call: what it read before (the agent of a token, the market
\* of a slug) cannot be changed by another request, so the handler is one
\* step, taken at that call.

\* An answer of a one-step handler: the locals agent and market as far as
\* the handler got, the status and the records of the body.  The answer of
\* PATCH /agents/profile keeps the local evmAddress too.
Answer(r, op, agentId, marketId, status, body) ==
    req' = [req EXCEPT ![r] =
              [IdleReq EXCEPT !.op = op, !.pc = "done", !.agentId = agentId,
                              !.marketId = marketId, !.status = status,
                              !.body = body]]

ActiveMarketsUnresolved(mkts, t) ==
    {m \in DOMAIN mkts : mkts[m].resolvedOutcome = Null}

\* markets/top: where resolvedOutcome is null and endDate is after new Date().
ActiveMarkets(mkts, t) ==
    {m \in DOMAIN mkts : mkts[m].resolvedOutcome = Null /\ mkts[m].endDate > t}

\* _count.predictions of a market.
PredictionCount(preds, m) == Cardinality({p \in preds : p.marketId = m})

\* orderBy: the number of predictions descending, then endDate ascending;
\* negative when market a goes first.
CompareMarkets(mkts, preds, a, b) ==
    IF PredictionCount(preds, a) # PredictionCount(preds, b)
    THEN PredictionCount(preds, b) - PredictionCount(preds, a)
    ELSE mkts[a].endDate - mkts[b].endDate

\* Market a goes before market b: by CompareMarkets, markets that tie in id
\* order.
MarketPrecedes(mkts, preds, a, b) ==
    \/ CompareMarkets(mkts, preds, a, b) < 0
    \/ CompareMarkets(mkts, preds, a, b) = 0 /\ a < b

\* The ids of s ordered by MarketPrecedes: at position k the id that k - 1
\* of the others precede.
SortMarkets(mkts, preds, s) ==
    LET ids == {s[i] : i \in DOMAIN s}
    IN [k \in 1..Len(s) |->
          CHOOSE x \in ids :
            Cardinality({y \in ids : MarketPrecedes(mkts, preds, y, x)}) = k - 1]

TakeAll(s, n) == s

\* take: n
Take(s, n) == IF Len(s) > n THEN SubSeq(s, 1, n) ELSE s

\* prisma.market.findMany of markets/top: the ids of the markets returned.
TopMarkets(mkts, preds, t) ==
    LET ids == [i \in 1..Len(mkts) |-> i]
        IsActive(m) == m \in ActiveMarkets(mkts, t)
    IN Take(SortMarkets(mkts, preds, SelectSeq(ids, IsActive)), TopLimit)

\* formattedMarkets: one record per market returned, at its position.
TopMarketsBody(mkts, preds, t) ==
    LET top == TopMarkets(mkts, preds, t)
    IN {[position |-> k, slug |-> top[k], endDate |-> mkts[top[k]].endDate,
         resolvedOutcome |-> mkts[top[k]].resolvedOutcome,
         agentCount |-> PredictionCount(preds, top[k])] : k \in DOMAIN top}

\* GET /markets/top
GetMarketsTop(r) ==
    /\ Free(r)
    /\ \E token \in ApiTokens :
         LET agent == getAgentFromToken(token)
         IN IF agent = 0
            THEN Answer(r, "marketsTop", 0, 0, 401, {})
            ELSE Answer(r, "marketsTop", agent, 0, 200,
                        TopMarketsBody(markets, predictions, now))
    /\ UNCHANGED <<agents, markets, predictions, comments, now, lbResp, hourly, sent, skillVars>>

RECURSIVE SumPYes(_)
SumPYes(rows) ==
    IF rows = {} THEN 0
    ELSE LET p == CHOOSE x \in rows : TRUE IN p.pYes + SumPYes(rows \ {p})

\* Math.round(avgProbability * 100), the average being 0.5 without forecasts.
AvgProbability(preds, m) ==
    LET rows == {p \in preds : p.marketId = m}
    IN IF rows = {} THEN 50 ELSE MathRound(SumPYes(rows), Cardinality(rows))

\* The body of GET /markets/{slug}: the market with its counts and, as
\* recentPredictions, the forecasts on it (take: 10 takes them all as long as
\* a market has at most ten).
MarketBody(mkts, preds, ags, m) ==
    {[slug |-> m, endDate |-> mkts[m].endDate,
      resolvedOutcome |-> mkts[m].resolvedOutcome,
      agentCount |-> PredictionCount(preds, m),
      avgProbability |-> AvgProbability(preds, m),
      recentPredictions |->
        {[agentName |-> ags[p.agentId].name, pYes |-> p.pYes] :
           p \in {q \in preds : q.marketId = m}}]}

\* GET /markets/{slug}
GetMarket(r) ==
    /\ Free(r)
    /\ \E token \in ApiTokens, slug \in ApiSlugs :
         LET agent == getAgentFromToken(token)
         IN IF agent = 0
            THEN Answer(r, "market", 0, 0, 401, {})
            ELSE IF FindMarket(slug) = 0
            THEN Answer(r, "market", agent, 0, 404, {})
            ELSE Answer(r, "market", agent, FindMarket(slug), 200,
                        MarketBody(markets, predictions, agents,
                                   FindMarket(slug)))
    /\ UNCHANGED <<agents, markets, predictions, comments, now, lbResp, hourly, sent, skillVars>>

HistoryOfAll(preds, mkts, a) ==
    {[agentId |-> p.agentId, marketSlug |-> p.marketId, pYes |-> p.pYes,
      rationale |-> p.rationale,
      resolvedOutcome |-> mkts[p.marketId].resolvedOutcome] : p \in preds}

\* prisma.prediction.findMany({where: {agentId}}) with the market of each
\* row, mapped to the records of the answer (the order, by createdAt, is not
\* kept).  agentId is the owner of the row, which the answer does not print.
HistoryOf(preds, mkts, a) ==
    {[agentId |-> p.agentId, marketSlug |-> p.marketId, pYes |-> p.pYes,
      rationale |-> p.rationale,
      resolvedOutcome |-> mkts[p.marketId].resolvedOutcome] :
        p \in {q \in preds : q.agentId = a}}

\* GET /predictions
GetPredictions(r) ==
    /\ Free(r)
    /\ \E token \in ApiTokens :
         LET agent == getAgentFromToken(token)
         IN IF agent = 0
            THEN Answer(r, "history", 0, 0, 401, {})
            ELSE Answer(r, "history", agent, 0, 200,
                        HistoryOf(predictions, markets, agent))
    /\ UNCHANGED <<agents, markets, predictions, comments, now, lbResp, hourly, sent, skillVars>>

\* The agent record of a profile answer.
ProfileBody(ags, preds, a) ==
    {[id |-> a, name |-> ags[a].name, evmAddress |-> ags[a].evmAddress,
      totalPredictions |-> Cardinality(PredictionsOf(preds, a))]}

\* GET /agents/profile
GetProfile(r) ==
    /\ Free(r)
    /\ \E token \in ApiTokens :
         LET agent == getAgentFromToken(token)
         IN IF agent = 0
            THEN Answer(r, "profile", 0, 0, 401, {})
            ELSE Answer(r, "profile", agent, 0, 200,
                        ProfileBody(agents, predictions, agent))
    /\ UNCHANGED <<agents, markets, predictions, comments, now, lbResp, hourly, sent, skillVars>>

HexChars ==
    {"0", "1", "2", "3", "4", "5", "6", "7", "8", "9",
     "a", "b", "c", "d", "e", "f", "A", "B", "C", "D", "E", "F"}

IsEvmAddressPrefixMatch(chars) ==
    /\ Len(chars) >= AddressHexLen + 2
    /\ chars[1] = "0"
    /\ chars[2] = "x"
    /\ \A i \in 3..(AddressHexLen + 2) : chars[i] \in HexChars

\* /^0x[a-fA-F0-9]{40}$/.test(evmAddress)
IsEvmAddress(chars) ==
    /\ Len(chars) = AddressHexLen + 2
    /\ chars[1] = "0"
    /\ chars[2] = "x"
    /\ \A i \in 3..(AddressHexLen + 2) : chars[i] \in HexChars

\* The validation of PATCH /agents/profile: null and undefined pass, any
\* other value must be a string that matches the pattern.
AddressAccepted(v) ==
    IF v.type \in {"null", "undefined"} THEN TRUE
    ELSE v.type = "string" /\ IsEvmAddress(v.chars)

\* prisma.agent.update({where: {id}, data: {evmAddress}}): an undefined
\* value leaves the column as it is.
UpdateAgent(ags, a, v) ==
    IF v.type = "undefined" THEN ags
    ELSE [ags EXCEPT ![a].evmAddress = v]

\* PATCH /agents/profile
PatchProfile(r) ==
    /\ Free(r)
    /\ \E token \in ApiTokens, v \in AddressInputs :
         LET agent == getAgentFromToken(token)
         IN IF agent = 0
            THEN /\ Answer(r, "patchProfile", 0, 0, 401, {})
                 /\ agents' = agents
            ELSE IF ~AddressAccepted(v)
            THEN /\ req' = [req EXCEPT ![r] =
                              [IdleReq EXCEPT !.op = "patchProfile",
                                              !.pc = "done", !.agentId = agent,
                                              !.status = 400,
                                              !.evmAddress = v]]
                 /\ agents' = agents
            ELSE /\ agents' = UpdateAgent(agents, agent, v)
                 /\ req' = [req EXCEPT ![r] =
                              [IdleReq EXCEPT
                                 !.op = "patchProfile", !.pc = "done",
                                 !.agentId = agent, !.status = 200,
                                 !.evmAddress = v,
                                 !.body =
                                   {[id |-> agent, name |-> agents[agent].name,
                                     evmAddress |->
                                       UpdateAgent(agents, agent, v)[agent]
                                         .evmAddress]}]]
    /\ UNCHANGED <<markets, predictions, comments, now, lbResp, hourly, sent, skillVars>>

\* The checks of POST /comments in their order, content by its length.
CommentStatus(agent, slug, content) ==
    IF agent = 0 THEN 401
    ELSE IF slug = 0 THEN 400
    ELSE IF content = 0 THEN 400
    ELSE IF content > MaxComment THEN 400
    ELSE IF content < MinComment THEN 400
    ELSE IF FindMarket(slug) = 0 THEN 404
    ELSE 0

\* POST /comments
PostComment(r) ==
    /\ Free(r)
    /\ Len(comments) < MaxComments
    /\ \E token \in ApiTokens, slug \in ApiSlugs, content \in ContentInputs :
         LET agent == getAgentFromToken(token)
             status == CommentStatus(agent, slug, content)
             row == [agentId |-> agent, marketId |-> FindMarket(slug),
                     content |-> content]
         IN IF status # 0
            THEN /\ Answer(r, "comment", agent, 0, status, {})
                 /\ comments' = comments
            ELSE /\ comments' = Append(comments, row)
                 /\ Answer(r, "comment", agent, FindMarket(slug), 201,
                           {[agentId |-> agent, agentName |-> agents[agent].name,
                             marketSlug |-> FindMarket(slug),
                             content |-> content]})
    /\ UNCHANGED <<agents, markets, predictions, now, lbResp, hourly, sent, skillVars>>

\* ------------------------------------------------------- environment

\* A market is resolved once, from outside the platform.
Resolve(m) ==
    /\ markets[m].resolvedOutcome = Null
    /\ \E o \in {"Yes", "No"} :
         markets' = [markets EXCEPT ![m].resolvedOutcome = o]
    /\ UNCHANGED <<agents, predictions, comments, now, req, lbResp, hourly, sent, skillVars>>

\* new Date() moves on.
Tick ==
    /\ now < MaxNow
    /\ now' = now + 1
    /\ UNCHANGED <<agents, markets, predictions, comments, req, lbResp, hourly, sent, skillVars>>

\* ------------------------------------------------ market-predictor skill
\* The executor and its callers before any call.
Workers == 1..NumWorkers

NoExecutor ==
    [max_daily_predictions |-> 1, dry_run_mode |-> FALSE,
     require_sentiment_analysis |-> FALSE, accepted |-> << >>]

NoRequest == [p_yes |-> 0, rationale |-> 0, confidence |-> 0, sentiment |-> FALSE]

\* A caller of execute_prediction: its request, the attempts made at the
\* gateway, the status of the last answer (NoStatus before any), and the typed
\* result with its violations or its response_data.
NoStatus == 0 - 1

IdleWorker ==
    [pc |-> "idle", request |-> NoRequest, attempts |-> 0, status |-> NoStatus,
     outcome |-> "none", violations |-> {}, response_data |-> {}]

\* No call of calculate_ev: probabilities and min_edge in hundredths, the
\* Kelly fraction in ten-thousandths, the expected value in hundredths of the
\* stake's unit.
NoCalculation ==
    [pc |-> "off", p_win |-> 0, market_odds |-> 0, stake |-> 0, min_edge |-> 0,
     error |-> "none", edge |-> 0, expected_value |-> 0, kelly_fraction |-> 0,
     recommendation |-> "none"]

\* ------------------------------------------------ heartbeat scheduler
\* The scheduler of the market-predictor skill (start_heartbeat,
\* stop_heartbeat, _heartbeat_tick).
\*   started  start_heartbeat has been called
\*   stopped  stop_heartbeat has been called
\*   running  the number of ticks executing
\*   left     markets the executing tick has yet to process
\*   found    results the executing tick has gathered
\*   firings, ticks, skipped   timer firings, ticks started, firings skipped
\*   stopTick the tick that was executing when stop was requested, or 0
\*   auto_predict  the configuration flag
\*   fetched  markets the executing tick fetched
\*   outcomes what the executing tick has for each market processed: its
\*            estimate and its result
\*   error    the fatal error the scheduler stopped on, or "none"

NoHeartbeat ==
    [started |-> FALSE, stopped |-> FALSE, running |-> 0, left |-> 0,
     found |-> 0, firings |-> 0, ticks |-> 0, skipped |-> 0, stopTick |-> 0,
     auto_predict |-> FALSE, fetched |-> 0, outcomes |-> << >>,
     error |-> "none"]

\* No tick starts any more: stop_heartbeat was called, or a fatal error
\* stopped the scheduler.
Halted(s) == s.stopped \/ s.error # "none"

\* Idle, Running(tick) or Stopped.
SchedState(s) ==
    IF s.running > 0 THEN "Running"
    ELSE IF Halted(s) THEN "Stopped"
    ELSE "Idle"

\* A tick starts, having fetched n markets.
StartTick(s, n) ==
    [s EXCEPT !.firings = @ + 1, !.running = @ + 1, !.ticks = @ + 1,
              !.left = n, !.found = 0, !.fetched = n, !.outcomes = << >>]

OnFireOverlap(s, n) ==
    IF Halted(s) THEN [s EXCEPT !.firings = @ + 1]
    ELSE StartTick(s, n)

OnFireAfterStop(s, n) ==
    IF s.running > 0
    THEN [s EXCEPT !.firings = @ + 1, !.skipped = @ + 1]
    ELSE StartTick(s, n)

\* The interval has elapsed.  After a stop the firing starts nothing; while a
\* tick is executing the firing is skipped; otherwise a tick starts, having
\* fetched n markets.
OnFire(s, n) ==
    IF Halted(s) THEN [s EXCEPT !.firings = @ + 1]
    ELSE IF s.running > 0
    THEN [s EXCEPT !.firings = @ + 1, !.skipped = @ + 1]
    ELSE StartTick(s, n)

TimerFire ==
    /\ sched.started
    /\ sched.firings < MaxFirings
    /\ \E n \in 0..MaxTickMarkets : sched' = OnFire(sched, n)
    /\ UNCHANGED <<sink, clock, exec, workers, ev, platformVars>>

\* Step 2 of a tick for one market: an estimate with an edge beyond min_edge,
\* an estimate without, a transient failure of the estimator, or a
\* DomainError of the EV calculation.
EstimateOutcomes == {"edge", "no-edge", "EstimationFailed", "DomainError"}

\* The typed results of execute_prediction.
ExecOutcomes ==
    {"Success", "DryRun", "ValidationError", "AuthenticationError",
     "MarketNotFoundError", "MarketClosedError", "SubmissionFailedError"}

\* The results that are a failure of their market.
MarketFailures ==
    {"EstimationFailed", "DomainError", "ValidationError",
     "MarketNotFoundError", "MarketClosedError", "SubmissionFailedError",
     "AuthenticationError"}

\* Steps 2 to 4 of a tick for one market: what the tick has for it.  A failed
\* estimate stays with its market; without an edge there is nothing; an
\* opportunity is reported and, auto_predict set and the token not refused,
\* submitted: then the result is the executor's.
MarketResult(s, estimate, submission) ==
    IF estimate \in {"EstimationFailed", "DomainError"} THEN estimate
    ELSE IF estimate = "no-edge" THEN "none"
    ELSE IF s.auto_predict /\ s.error = "none" THEN submission
    ELSE "Opportunity"

OnMarketAbortOnFailure(s, estimate, submission) ==
    LET result == MarketResult(s, estimate, submission)
    IN [s EXCEPT
          !.left = IF result \in MarketFailures THEN 0 ELSE @ - 1,
          !.found = IF result \in MarketFailures \cup {"none"}
                    THEN @ ELSE @ + 1,
          !.outcomes = Append(@, [estimate |-> estimate, result |-> result]),
          !.error = IF result = "AuthenticationError" THEN result ELSE @]

OnMarketAuthIgnored(s, estimate, submission) ==
    LET result == MarketResult(s, estimate, submission)
    IN [s EXCEPT
          !.left = @ - 1,
          !.found = IF result \in MarketFailures \cup {"none"}
                    THEN @ ELSE @ + 1,
          !.outcomes = Append(@, [estimate |-> estimate, result |-> result])]

\* The tick has processed one market.  Its result is kept, a failure with
\* it; the markets left stay to be processed; an AuthenticationError stops
\* the scheduler.
OnMarket(s, estimate, submission) ==
    LET result == MarketResult(s, estimate, submission)
    IN [s EXCEPT
          !.left = @ - 1,
          !.found = IF result \in MarketFailures \cup {"none"}
                    THEN @ ELSE @ + 1,
          !.outcomes = Append(@, [estimate |-> estimate, result |-> result]),
          !.error = IF result = "AuthenticationError" THEN result ELSE @]

\* The executing tick processes one market: an estimate, its EVResult, and a
\* result kept or not (no opportunity, or a failure that stays with this
\* market).
TickStep ==
    /\ sched.running > 0
    /\ sched.left > 0
    /\ \E estimate \in EstimateOutcomes, submission \in ExecOutcomes :
         sched' = OnMarket(sched, estimate, submission)
    /\ UNCHANGED <<sink, clock, exec, workers, ev, platformVars>>

\* The failures among the results of a tick.
FailuresOf(outcomes) ==
    Cardinality({i \in DOMAIN outcomes : outcomes[i].result \in MarketFailures})

\* The executing tick has processed its markets: its results go to the sink
\* (the results kept, the markets reported on, the failures among them and
\* the fatal error) and the tick is over.
TickEnd ==
    /\ sched.running > 0
    /\ sched.left = 0
    /\ sink' = Append(sink, [tick |-> sched.ticks, results |-> sched.found,
                             reported |-> Len(sched.outcomes),
                             failures |-> FailuresOf(sched.outcomes),
                             error |-> sched.error])
    /\ sched' = [sched EXCEPT !.running = @ - 1, !.found = 0,
                              !.fetched = 0, !.outcomes = << >>]
    /\ UNCHANGED <<clock, exec, workers, ev, platformVars>>

OnStopAbort(s) ==
    [s EXCEPT !.stopped = TRUE, !.running = 0, !.left = 0, !.found = 0,
              !.fetched = 0, !.outcomes = << >>,
              !.stopTick = IF s.running > 0 THEN s.ticks ELSE 0]

\* stop_heartbeat: no tick starts from now on; a tick that is executing goes
\* on.
OnStop(s) ==
    [s EXCEPT !.stopped = TRUE,
              !.stopTick = IF s.running > 0 THEN s.ticks ELSE 0]

StopHeartbeat ==
    /\ sched.started
    /\ ~sched.stopped
    /\ sched' = OnStop(sched)
    /\ UNCHANGED <<sink, clock, exec, workers, ev, platformVars>>

\* start_heartbeat has been called: the scheduler is idle, its timer set.
SchedInit ==
    /\ agents = << >>
    /\ markets = [m \in 1..NumMarkets |-> [endDate |-> 0, resolvedOutcome |-> Null]]
    /\ predictions = {}
    /\ comments = << >>
    /\ now = 0
    /\ req = [r \in Reqs |-> IdleReq]
    /\ lbResp = NoLeaderboard
    /\ hourly = NotWatching
    /\ sent = NotRecording
    /\ \E auto \in BOOLEAN :
         sched = [NoHeartbeat EXCEPT !.started = TRUE, !.auto_predict = auto]
    /\ sink = << >>
    /\ clock = 0
    /\ exec = NoExecutor
    /\ workers = [w \in Workers |-> IdleWorker]
    /\ ev = NoCalculation

SchedNext ==
    \/ TimerFire
    \/ TickStep
    \/ TickEnd
    \/ StopHeartbeat

SchedSpec == SchedInit /\ [][SchedNext]_vars

\* A tick that is executing goes on: its network calls return or fail after
\* their retries.
SchedFairSpec == SchedSpec /\ WF_vars(TickStep) /\ WF_vars(TickEnd)

\* ------------------------------------------------ submission executor
\* TradeExecutor of the market-predictor skill with its SafetyConfig.
\*   accepted  the times of the submissions the gateway accepted: the
\*             rolling counter of the daily budget
\* A caller is a market of a tick processed in parallel with the others.
\* The guardrail is synchronous, the call of the gateway is where a caller
\* is suspended, and the counter is updated under mutual exclusion: each of
\* ExecBegin and ExecResponse is one step.

\* execute_prediction(market_slug, p_yes, rationale, confidence): a request
\* that passes every check of its own, and requests that fail one or all.
RequestInputs ==
    {[p_yes |-> 650, rationale |-> min_rationale_length,
      confidence |-> min_confidence_threshold, sentiment |-> FALSE],
     [p_yes |-> 650, rationale |-> max_rationale_length,
      confidence |-> 100, sentiment |-> TRUE],
     [p_yes |-> 5, rationale |-> min_rationale_length,
      confidence |-> min_confidence_threshold, sentiment |-> TRUE],
     [p_yes |-> 650, rationale |-> min_rationale_length - 10,
      confidence |-> min_confidence_threshold, sentiment |-> TRUE],
     [p_yes |-> 995, rationale |-> max_rationale_length + 1,
      confidence |-> min_confidence_threshold - 1, sentiment |-> FALSE]}

\* What the market gateway answers to a submission: a status, or no answer
\* at all (a network-level failure).
NetworkFailure == 0

GatewayResponses == {201, 401, 404, 409, 503, NetworkFailure}

\* The submissions accepted in the 24 hours that end at t.
CountInWindow(log, t) ==
    Cardinality({i \in DOMAIN log : log[i] > t - DayHours /\ log[i] <= t})

ViolationsFirstOnly(e, request, t) ==
    IF request.p_yes < min_probability \/ request.p_yes > max_probability
    THEN {"probability"}
    ELSE IF request.rationale < min_rationale_length
            \/ request.rationale > max_rationale_length
    THEN {"rationale"}
    ELSE IF request.confidence < min_confidence_threshold
    THEN {"confidence"}
    ELSE IF e.require_sentiment_analysis /\ ~request.sentiment
    THEN {"sentiment"}
    ELSE IF CountInWindow(e.accepted, t) >= e.max_daily_predictions
    THEN {"daily"}
    ELSE {}

\* validate(request, agentState): every violation, not the first only.
Violations(e, request, t) ==
    (IF request.p_yes < min_probability \/ request.p_yes > max_probability
     THEN {"probability"} ELSE {})
    \cup (IF request.rationale < min_rationale_length
             \/ request.rationale > max_rationale_length
          THEN {"rationale"} ELSE {})
    \cup (IF request.confidence < min_confidence_threshold
          THEN {"confidence"} ELSE {})
    \cup (IF e.require_sentiment_analysis /\ ~request.sentiment
          THEN {"sentiment"} ELSE {})
    \cup (IF CountInWindow(e.accepted, t) >= e.max_daily_predictions
          THEN {"daily"} ELSE {})

BeginOutcomeDryRunFirst(e, request, t) ==
    IF e.dry_run_mode THEN "DryRun"
    ELSE IF Violations(e, request, t) # {} THEN "ValidationError"
    ELSE "Submit"

\* What steps 1 and 2 of execute_prediction decide: the guardrail first, then
\* the dry run, else the submission.
BeginOutcome(e, request, t) ==
    IF Violations(e, request, t) # {} THEN "ValidationError"
    ELSE IF e.dry_run_mode THEN "DryRun"
    ELSE "Submit"

\* response_data: the body of the submission, as the gateway returns it in
\* the forecast record and as a dry run returns it.
ResponseData(request) ==
    {[pYes |-> request.p_yes, rationale |-> request.rationale]}

\* Steps 1 and 2 of execute_prediction: the guardrail, then the dry run.
ExecBegin(w) ==
    /\ workers[w].pc = "idle"
    /\ \E request \in RequestInputs :
         LET outcome == BeginOutcome(exec, request, clock)
         IN IF outcome = "ValidationError"
            THEN workers' = [workers EXCEPT ![w] =
                               [IdleWorker EXCEPT
                                  !.pc = "done", !.request = request,
                                  !.outcome = outcome,
                                  !.violations =
                                     Violations(exec, request, clock)]]
            ELSE IF outcome = "DryRun"
            THEN workers' = [workers EXCEPT ![w] =
                               [IdleWorker EXCEPT
                                  !.pc = "done", !.request = request,
                                  !.outcome = outcome,
                                  !.response_data = ResponseData(request)]]
            ELSE workers' = [workers EXCEPT ![w] =
                               [IdleWorker EXCEPT
                                  !.pc = "calling", !.request = request,
                                  !.attempts = 1]]
    /\ UNCHANGED <<sched, sink, clock, exec, ev, platformVars>>

\* The classification of a response other than 2xx.
Classify(response) ==
    IF response = 401 THEN "AuthenticationError"
    ELSE IF response = 404 THEN "MarketNotFoundError"
    ELSE IF response = 409 THEN "MarketClosedError"
    ELSE "SubmissionFailedError"

TransientAnyFailure(response) == response # 201

\* 5xx or a network-level failure: the failures tried again.
Transient(response) == response = NetworkFailure \/ response >= 500

\* Step 3 of execute_prediction: the answer of the gateway.  2xx counts the
\* submission; a transient failure is tried again up to MaxAttempts times.
ExecResponse(w) ==
    /\ workers[w].pc = "calling"
    /\ \E response \in GatewayResponses :
         IF response = 201
         THEN /\ exec' = [exec EXCEPT !.accepted = Append(@, clock)]
              /\ workers' = [workers EXCEPT
                               ![w].pc = "done", ![w].status = response,
                               ![w].outcome = "Success",
                               ![w].response_data =
                                  ResponseData(workers[w].request)]
         ELSE IF Transient(response) /\ workers[w].attempts < MaxAttempts
         THEN /\ workers' = [workers EXCEPT ![w].attempts = @ + 1,
                                            ![w].status = response]
              /\ exec' = exec
         ELSE /\ workers' = [workers EXCEPT ![w].pc = "done",
                                            ![w].status = response,
                                            ![w].outcome = Classify(response)]
              /\ exec' = exec
    /\ UNCHANGED <<sched, sink, clock, ev, platformVars>>

\* Step 4: the typed result is back with the caller.
ExecReturn(w) ==
    /\ workers[w].pc = "done"
    /\ workers' = [workers EXCEPT ![w] = IdleWorker]
    /\ UNCHANGED <<sched, sink, clock, exec, ev, platformVars>>

\* Time passes.
ClockAdvance ==
    /\ clock + ClockStep <= MaxClock
    /\ clock' = clock + ClockStep
    /\ UNCHANGED <<sched, sink, exec, workers, ev, platformVars>>

\* An executor constructed with its SafetyConfig, no submission counted.
ExecInit ==
    /\ agents = << >>
    /\ markets = [m \in 1..NumMarkets |-> [endDate |-> 0, resolvedOutcome |-> Null]]
    /\ predictions = {}
    /\ comments = << >>
    /\ now = 0
    /\ req = [r \in Reqs |-> IdleReq]
    /\ lbResp = NoLeaderboard
    /\ hourly = NotWatching
    /\ sent = NotRecording
    /\ sched = NoHeartbeat
    /\ sink = << >>
    /\ clock = 0
    /\ \E n \in 1..MaxDaily, dry \in BOOLEAN, sentiment \in BOOLEAN :
         exec = [NoExecutor EXCEPT !.max_daily_predictions = n,
                                   !.dry_run_mode = dry,
                                   !.require_sentiment_analysis = sentiment]
    /\ workers = [w \in Workers |-> IdleWorker]
    /\ ev = NoCalculation

ExecNext ==
    \/ \E w \in Workers : ExecBegin(w)
    \/ \E w \in Workers : ExecResponse(w)
    \/ \E w \in Workers : ExecReturn(w)
    \/ ClockAdvance

ExecSpec == ExecInit /\ [][ExecNext]_vars

\* Every answer of the gateway arrives: a caller in its call goes on.
ExecFairSpec == ExecSpec /\ \A w \in Workers : WF_vars(ExecResponse(w))

\* ------------------------------------------------------ EV calculator
\* calculate_ev of the skill's predict engine.

RecommendationInclusive(edge, min_edge) ==
    IF edge >= min_edge THEN "favor-yes"
    ELSE IF edge <= 0 - min_edge THEN "favor-no"
    ELSE "no-action"

\* favor-yes for an edge above min_edge, favor-no for one below -min_edge.
Recommendation(edge, min_edge) ==
    IF edge > min_edge THEN "favor-yes"
    ELSE IF edge < 0 - min_edge THEN "favor-no"
    ELSE "no-action"

KellyUnclamped(edge, market_odds) ==
    (edge * KellyScale) \div (ProbScale - market_odds)

\* kelly = edge / (1 - market_odds), clamped to [0, 1].
Kelly(edge, market_odds) ==
    LET kelly == (edge * KellyScale) \div (ProbScale - market_odds)
    IN IF kelly < 0 THEN 0
       ELSE IF kelly > KellyScale THEN KellyScale
       ELSE kelly

\* calculate_ev(p_win, market_odds, stake) with the caller's min_edge:
\* DomainError for market odds of 0 or 1.
calculate_ev(c) ==
    IF c.market_odds <= 0 \/ c.market_odds >= ProbScale
    THEN [c EXCEPT !.pc = "done", !.error = "DomainError"]
    ELSE LET edge == c.p_win - c.market_odds
         IN [c EXCEPT
               !.pc = "done",
               !.edge = edge,
               !.expected_value = (c.stake * edge * ProbScale) \div c.market_odds,
               !.kelly_fraction = Kelly(edge, c.market_odds),
               !.recommendation = Recommendation(edge, c.min_edge)]

\* The estimates, the market odds, the stakes and the thresholds of a call.
ProbabilityInputs == {0, 1, 20, 33, 35, 50, 65, 99, 100}
StakeInputs == {1, 100}
MinEdgeInputs == {0, 2, 5, 30}

CalculateEv ==
    /\ ev.pc = "input"
    /\ ev' = calculate_ev(ev)
    /\ UNCHANGED <<sched, sink, clock, exec, workers, platformVars>>

EvInit ==
    /\ agents = << >>
    /\ markets = [m \in 1..NumMarkets |-> [endDate |-> 0, resolvedOutcome |-> Null]]
    /\ predictions = {}
    /\ comments = << >>
    /\ now = 0
    /\ req = [r \in Reqs |-> IdleReq]
    /\ lbResp = NoLeaderboard
    /\ hourly = NotWatching
    /\ sent = NotRecording
    /\ sched = NoHeartbeat
    /\ sink = << >>
    /\ clock = 0
    /\ exec = NoExecutor
    /\ workers = [w \in Workers |-> IdleWorker]
    /\ \E p_win \in ProbabilityInputs, market_odds \in ProbabilityInputs,
          stake \in StakeInputs, min_edge \in MinEdgeInputs :
         ev = [NoCalculation EXCEPT !.pc = "input", !.p_win = p_win,
                                    !.market_odds = market_odds,
                                    !.stake = stake, !.min_edge = min_edge]

EvNext == CalculateEv

EvSpec == EvInit /\ [][EvNext]_vars

\* ------------------------------------------------------ specification

\* The skill is not running.
SkillOff ==
    /\ sched = NoHeartbeat
    /\ sink = << >>
    /\ clock = 0
    /\ exec = NoExecutor
    /\ workers = [w \in Workers |-> IdleWorker]
    /\ ev = NoCalculation


\* The seeded database: the markets unresolved, no agent, no prediction.
Init ==
    /\ agents = << >>
    /\ markets = [m \in 1..NumMarkets |-> [endDate |-> 0, resolvedOutcome |-> Null]]
    /\ predictions = {}
    /\ comments = << >>
    /\ now = 0
    /\ req = [r \in Reqs |-> IdleReq]
    /\ lbResp = NoLeaderboard
    /\ hourly = NotWatching
    /\ sent = NotRecording
    /\ SkillOff

Next ==
    \/ \E r \in Reqs : RegisterFind(r)
    \/ \E r \in Reqs : RegisterCreate(r)
    \/ \E r \in Reqs : PredictCheck(r)
    \/ \E r \in Reqs : PredictUpsert(r)
    \/ \E r \in Reqs : Return(r)
    \/ \E m \in DOMAIN markets : Resolve(m)
    \/ Tick

Spec == Init /\ [][Next]_vars

\* Requests one at a time: a request starts only when no other is in flight.
Quiet == \A r \in Reqs : req[r].pc \in {"idle", "done"}

SeqNext ==
    \/ \E r \in Reqs : Quiet /\ RegisterFind(r)
    \/ \E r \in Reqs : RegisterCreate(r)
    \/ \E r \in Reqs : Quiet /\ PredictCheck(r)
    \/ \E r \in Reqs : PredictUpsert(r)
    \/ \E r \in Reqs : Return(r)
    \/ \E m \in DOMAIN markets : Quiet /\ Resolve(m)
    \/ Quiet /\ Tick

SeqSpec == Init /\ [][SeqNext]_vars

\* ------------------------------------------- leaderboard populations

\* pYes of the forecasts of a population, in hundredths.
LbPYes == {0, 50, 100}

LbPairs == (1..LbAgents) \X (1..LbMarkets)

\* A population: LbAgents registered agents, LbMarkets markets each
\* unresolved or resolved either way, and for every (agent, market) pair no
\* forecast or one forecast.
LbInit ==
    /\ agents = [a \in 1..LbAgents |->
                   [name |-> a, token |-> a, evmAddress |-> NullAddress]]
    /\ markets \in [1..LbMarkets ->
                      [endDate : {0}, resolvedOutcome : {Null, "Yes", "No"}]]
    /\ \E f \in [LbPairs -> LbPYes \cup {-1}] :
         predictions = {[agentId |-> pr[1], marketId |-> pr[2],
                         pYes |-> f[pr], rationale |-> 1] :
                           pr \in {q \in LbPairs : f[q] # -1}}
    /\ comments = << >>
    /\ now = 0
    /\ req = [r \in Reqs |-> IdleReq]
    /\ lbResp = NoLeaderboard
    /\ hourly = NotWatching
    /\ sent = NotRecording
    /\ SkillOff

LbNext == GetLeaderboard

LbSpec == LbInit /\ [][LbNext]_vars

\* ----------------------------------- the routes on a small population

\* Requests to the other routes are served one at a time, through one slot.
ApiReqs == {1}

\* A population: ApiAgents registered agents without address, the first
\* market open, the others resolved or not and ending now or later, no
\* forecast and no comment yet.
ApiInit ==
    /\ agents = [a \in 1..ApiAgents |->
                   [name |-> a, token |-> a, evmAddress |-> NullAddress]]
    /\ markets \in {mk \in [1..ApiMarkets ->
                             [endDate : 0..1, resolvedOutcome : {Null, "Yes"}]] :
                      mk[1] = [endDate |-> 1, resolvedOutcome |-> Null]}
    /\ predictions = {}
    /\ comments = << >>
    /\ now = 0
    /\ req = [r \in Reqs |-> IdleReq]
    /\ lbResp = NoLeaderboard
    /\ hourly = NotWatching
    /\ sent = NotRecording
    /\ SkillOff

ApiNext ==
    \/ \E r \in ApiReqs : GetMarketsTop(r)
    \/ \E r \in ApiReqs : GetMarket(r)
    \/ \E r \in ApiReqs : GetPredictions(r)
    \/ \E r \in ApiReqs : GetProfile(r)
    \/ \E r \in ApiReqs : PatchProfile(r)
    \/ \E r \in ApiReqs : PostComment(r)
    \/ \E r \in ApiReqs : PredictCheck(r)
    \/ \E r \in ApiReqs : PredictUpsert(r)
    \/ \E r \in ApiReqs : Return(r)

ApiSpec == ApiInit /\ [][ApiNext]_vars

\* ------------------------------------------ populations of markets/top

\* A small population: each market unresolved or resolved, ending before,
\* at or after now, with or without a forecast of the first agent.  A large
\* population: more markets than the limit, all active but one, which is
\* resolved or has ended, with or without a forecast on the last market.
TopInit ==
    /\ agents = [a \in 1..ApiAgents |->
                   [name |-> a, token |-> a, evmAddress |-> NullAddress]]
    /\ now = 1
    /\ \/ /\ markets \in [1..TopSmall ->
                            [endDate : 0..2,
                             resolvedOutcome : {Null, "Yes", "No"}]]
          /\ \E ms \in SUBSET (1..TopSmall) :
               predictions = {[agentId |-> 1, marketId |-> m, pYes |-> 50,
                               rationale |-> 1] : m \in ms}
       \/ /\ \E j \in {1, TopLimit + TopOver} :
             \E closed \in {[endDate |-> 2, resolvedOutcome |-> "Yes"],
                            [endDate |-> 1, resolvedOutcome |-> Null]} :
               markets = [m \in 1..(TopLimit + TopOver) |->
                            IF m = j THEN closed
                            ELSE [endDate |-> 2, resolvedOutcome |-> Null]]
          /\ \E ms \in SUBSET {TopLimit + TopOver - 1} :
               predictions = {[agentId |-> 1, marketId |-> m, pYes |-> 50,
                               rationale |-> 1] : m \in ms}
    /\ comments = << >>
    /\ req = [r \in Reqs |-> IdleReq]
    /\ lbResp = NoLeaderboard
    /\ hourly = NotWatching
    /\ sent = NotRecording
    /\ SkillOff

TopNext == \E r \in ApiReqs : GetMarketsTop(r)

TopSpec == TopInit /\ [][TopNext]_vars

\* ------------------------------------------ submissions within an hour

\* One registered agent, watched, and the seeded markets; the clock stands
\* still, so every answer falls into the same hour.
RateInit ==
    /\ agents = <<[name |-> 1, token |-> 1, evmAddress |-> NullAddress]>>
    /\ markets = [m \in 1..NumMarkets |-> [endDate |-> 0, resolvedOutcome |-> Null]]
    /\ predictions = {}
    /\ comments = << >>
    /\ now = 0
    /\ req = [r \in Reqs |-> IdleReq]
    /\ lbResp = NoLeaderboard
    /\ hourly = [agent |-> 1, accepted |-> 0]
    /\ sent = NotRecording
    /\ SkillOff

RateNext ==
    \/ \E r \in ApiReqs : PredictCheck(r)
    \/ \E r \in ApiReqs : PredictUpsert(r)
    \/ \E r \in ApiReqs : Return(r)

RateSpec == RateInit /\ [][RateNext]_vars

\* ------------------------------------- the checks of POST /predictions
\* One registered agent and the seeded market, open, past its end or
\* resolved; what each POST /predictions sends is recorded.
OrderInit ==
    /\ agents = <<[name |-> 1, token |-> 1, evmAddress |-> NullAddress]>>
    /\ \E endDate \in 0..1, outcome \in {Null, "Yes"} :
         markets = [m \in 1..NumMarkets |->
                      [endDate |-> endDate, resolvedOutcome |-> outcome]]
    /\ predictions = {}
    /\ comments = << >>
    /\ now = 1
    /\ req = [r \in Reqs |-> IdleReq]
    /\ lbResp = NoLeaderboard
    /\ hourly = NotWatching
    /\ sent = [NotRecording EXCEPT !.recording = TRUE]
    /\ SkillOff

OrderNext ==
    \/ \E r \in ApiReqs : PredictCheck(r)
    \/ \E r \in ApiReqs : PredictUpsert(r)
    \/ \E r \in ApiReqs : Return(r)

OrderSpec == OrderInit /\ [][OrderNext]_vars

\* ------------------------------------------------------------- claims

SamePair(p, q) == p.agentId = q.agentId /\ p.marketId = q.marketId

\* The step of slot r that answers its request.
Answers(r, op) == req[r].pc # "done" /\ req'[r].pc = "done" /\ req'[r].op = op

\* C1: whatever the interleaving of POST /predictions requests, the table
\* holds at most one forecast per (agent, market) pair, and the upsert of a
\* request answers 201, leaves exactly the submitted pYes and rationale as
\* the pair's forecast and, when the pair had a forecast, leaves the number
\* of rows and the agent's number of forecasts as they were.
C1_OneForecastPerPair ==
    /\ [](\A p, q \in predictions : SamePair(p, q) => p = q)
    /\ [][\A r \in Reqs :
            (req[r].pc = "upsert" /\ Answers(r, "predict")) =>
              LET a == req[r].agentId
                  m == req[r].marketId
              IN /\ req'[r].status = 201
                 /\ RowsOf(predictions', a, m) =
                      {[agentId |-> a, marketId |-> m, pYes |-> req[r].pYes,
                        rationale |-> req[r].rationale]}
                 /\ RowsOf(predictions, a, m) # {} =>
                      /\ Cardinality(predictions') = Cardinality(predictions)
                      /\ Cardinality(PredictionsOf(predictions', a)) =
                           Cardinality(PredictionsOf(predictions, a))]_vars

\* Both slots have had a submission accepted while one agent and one
\* forecast exist: the second submission overwrote the first one's row.
C1_Witness ==
    /\ Len(agents) = 1
    /\ Cardinality(predictions) = 1
    /\ \A r \in Reqs : req[r].op = "predict" /\ req[r].pc = "done"
                       /\ req[r].status = 201
    /\ \E p \in predictions : p.pYes = 100 /\ p.rationale = MaxRationale

\* C10: the step that answers a POST /agents/register for a valid name
\* answers 201 and appends one agent of that name, with a token no agent
\* held, when no agent has the name (the answer carrying the new agent's id
\* and name), and answers 409 and leaves the agents as they are when an agent
\* has the name.
C10_Register ==
    [][\A r \in Reqs :
         (Answers(r, "register") /\ req'[r].name # 0) =>
           LET name == req'[r].name
           IN IF AgentByName(name) = {}
              THEN /\ req'[r].status = 201
                   /\ Len(agents') = Len(agents) + 1
                   /\ SubSeq(agents', 1, Len(agents)) = agents
                   /\ agents'[Len(agents')].name = name
                   /\ AgentByToken(agents'[Len(agents')].token) = {}
                   /\ req'[r].agentId = Len(agents')
              ELSE /\ req'[r].status = 409
                   /\ agents' = agents]_vars

\* One request was answered 201 and a later one for the same name 409.
C10_Witness ==
    \E r, q \in Reqs :
        /\ req[r].op = "register" /\ req[r].pc = "done" /\ req[r].status = 201
        /\ req[q].op = "register" /\ req[q].pc = "done" /\ req[q].status = 409
        /\ req[q].name = req[r].name
        /\ AgentByName(req[r].name) = {req[r].agentId}

\* ---- the list of the last GET /leaderboard and the population it read

Lb == lbResp.agents

IsResolved(m) == markets[m].resolvedOutcome \in {"Yes", "No"}

ForecastsOf(a) == {p \in predictions : p.agentId = a}

ResolvedForecastsOf(a) == {p \in ForecastsOf(a) : IsResolved(p.marketId)}

Listed(a) == \E k \in DOMAIN Lb : Lb[k].agentId = a

\* (pYes - o)^2 of the forecast of agent a on market m, o = 1 for Yes; 0 when
\* a has no forecast on m or m is unresolved.
SquaredError(a, m) ==
    IF IsResolved(m) /\ RowsOf(predictions, a, m) # {}
    THEN LET p == CHOOSE x \in RowsOf(predictions, a, m) : TRUE
             o == IF markets[m].resolvedOutcome = "Yes" THEN 100 ELSE 0
         IN (p.pYes - o) ^ 2
    ELSE 0

\* The sum of the squared errors of agent a over the markets 1..m.
RECURSIVE SumSquaredError(_, _)
SumSquaredError(a, m) ==
    IF m = 0 THEN 0 ELSE SquaredError(a, m) + SumSquaredError(a, m - 1)

\* The resolved forecasts of agent a whose side (pYes >= 0.5) is the outcome.
RightSide(a) ==
    {p \in ResolvedForecastsOf(a) :
        (p.pYes >= 50) <=> (markets[p.marketId].resolvedOutcome = "Yes")}

Abs(x) == IF x < 0 THEN -x ELSE x

\* C2 as stated: brierScore never decreases along the list.
C2_BrierNonDecreasing ==
    lbResp.served =>
      \A i, j \in DOMAIN Lb : i < j => Lb[i].brierScore <= Lb[j].brierScore

\* C2, amended: brierScore never decreases along the entries that have a
\* resolved forecast; these come before every entry that has none, and an
\* entry that has none carries the default 0.25.
C2_BrierNonDecreasingAmongResolved ==
    lbResp.served =>
      /\ \A i, j \in DOMAIN Lb :
           (i < j /\ Lb[i].resolvedPredictions > 0
                  /\ Lb[j].resolvedPredictions > 0) =>
             Lb[i].brierScore <= Lb[j].brierScore
      /\ \A i, j \in DOMAIN Lb :
           (i < j /\ Lb[i].resolvedPredictions = 0) =>
             Lb[j].resolvedPredictions = 0
      /\ \A k \in DOMAIN Lb :
           Lb[k].resolvedPredictions = 0 => Lb[k].brierScore = DefaultBrier

\* A list whose two entries both have a resolved forecast and differ in
\* brierScore, one of them better and one worse than the default 0.25.
C2_Witness ==
    /\ lbResp.served
    /\ \E i, j \in DOMAIN Lb :
         /\ i < j
         /\ Lb[i].resolvedPredictions > 0 /\ Lb[j].resolvedPredictions > 0
         /\ Lb[i].brierScore < DefaultBrier
         /\ Lb[j].brierScore > DefaultBrier
         /\ Lb[i].agentId > Lb[j].agentId

\* C3 as stated: an agent with forecasts, none of them on a resolved market,
\* is not in the list.
C3_UnscoredAgentExcluded ==
    lbResp.served =>
      \A a \in AgentIds :
        (ForecastsOf(a) # {} /\ ResolvedForecastsOf(a) = {}) => ~Listed(a)

\* C3, amended: an agent with forecasts, none of them on a resolved market,
\* is in the list, with resolvedPredictions 0, brierScore 0.25 and accuracy 0,
\* behind every entry that has a resolved forecast.
C3_UnscoredAgentListedLast ==
    lbResp.served =>
      \A a \in AgentIds :
        (ForecastsOf(a) # {} /\ ResolvedForecastsOf(a) = {}) =>
          \E k \in DOMAIN Lb :
            /\ Lb[k].agentId = a
            /\ Lb[k].resolvedPredictions = 0
            /\ Lb[k].brierScore = DefaultBrier
            /\ Lb[k].accuracy = 0
            /\ \A j \in DOMAIN Lb : Lb[j].resolvedPredictions > 0 => j < k

\* An agent without a resolved forecast is listed behind an agent scored
\* worse than 0.25.
C3_Witness ==
    /\ lbResp.served
    /\ \E a, b \in AgentIds :
         /\ ForecastsOf(a) # {} /\ ResolvedForecastsOf(a) = {}
         /\ ResolvedForecastsOf(b) # {}
         /\ \E j, k \in DOMAIN Lb :
              /\ Lb[j].agentId = b /\ Lb[k].agentId = a
              /\ Lb[j].brierScore > Lb[k].brierScore

\* C4: an agent without any forecast is not in the list.
C4_NoForecastNotListed ==
    lbResp.served => \A a \in AgentIds : ForecastsOf(a) = {} => ~Listed(a)

\* A non-empty list was served while an agent has no forecast.
C4_Witness ==
    /\ lbResp.served
    /\ Len(Lb) >= 1
    /\ \E a \in AgentIds : ForecastsOf(a) = {}

\* C5 as stated: of two entries with equal brierScore the one with more
\* totalPredictions comes first.
C5_TieMorePredictionsFirst ==
    lbResp.served =>
      \A i, j \in DOMAIN Lb :
        (Lb[i].brierScore = Lb[j].brierScore
           /\ Lb[i].totalPredictions > Lb[j].totalPredictions) =>
          (i < j /\ Lb[i].rank < Lb[j].rank)

\* C5, amended: of two entries with equal brierScore that both have, or
\* both lack, a resolved forecast, the one with more totalPredictions comes
\* first.
C5_TieMorePredictionsFirstSameGroup ==
    lbResp.served =>
      \A i, j \in DOMAIN Lb :
        (Lb[i].brierScore = Lb[j].brierScore
           /\ (Lb[i].resolvedPredictions > 0 <=> Lb[j].resolvedPredictions > 0)
           /\ Lb[i].totalPredictions > Lb[j].totalPredictions) =>
          (i < j /\ Lb[i].rank < Lb[j].rank)

\* Two scored entries tie on brierScore and differ in totalPredictions, and
\* the agent stored later is the one listed first.
C5_Witness ==
    /\ lbResp.served
    /\ \E i, j \in DOMAIN Lb :
         /\ i < j
         /\ Lb[i].brierScore = Lb[j].brierScore
         /\ Lb[i].resolvedPredictions > 0 /\ Lb[j].resolvedPredictions > 0
         /\ Lb[i].totalPredictions > Lb[j].totalPredictions
         /\ Lb[i].agentId > Lb[j].agentId

\* C6: the entry at position k has rank k, and no agent is listed twice.
C6_RanksOneToN ==
    lbResp.served =>
      /\ \A k \in DOMAIN Lb : Lb[k].rank = k
      /\ DOMAIN Lb = 1..Len(Lb)
      /\ \A i, j \in DOMAIN Lb : Lb[i].agentId = Lb[j].agentId => i = j

\* Two listed agents tie on brierScore and on totalPredictions.
C6_Witness ==
    /\ lbResp.served
    /\ Len(Lb) >= 2
    /\ Lb[1].brierScore = Lb[2].brierScore
    /\ Lb[1].totalPredictions = Lb[2].totalPredictions
    /\ Lb[1].resolvedPredictions > 0 /\ Lb[2].resolvedPredictions > 0

\* C7 as stated: brierScore is the mean of the squared errors of the agent's
\* resolved forecasts (brierScore * n = sum), 0.25 without any, within [0,1].
C7_BrierIsMean ==
    lbResp.served =>
      \A k \in DOMAIN Lb :
        LET n == Cardinality(ResolvedForecastsOf(Lb[k].agentId))
            sum == SumSquaredError(Lb[k].agentId, Len(markets))
        IN /\ n > 0 => Lb[k].brierScore * n = sum
           /\ n = 0 => Lb[k].brierScore = DefaultBrier
           /\ Lb[k].brierScore \in 0..BrierScale

\* C7, amended: brierScore is that mean rounded to four decimal places: it
\* is within 0.00005 of the mean.
C7_BrierIsRoundedMean ==
    lbResp.served =>
      \A k \in DOMAIN Lb :
        LET n == Cardinality(ResolvedForecastsOf(Lb[k].agentId))
            sum == SumSquaredError(Lb[k].agentId, Len(markets))
        IN /\ n > 0 => 2 * Abs(Lb[k].brierScore * n - sum) <= n
           /\ n = 0 => Lb[k].brierScore = DefaultBrier
           /\ Lb[k].brierScore \in 0..BrierScale

\* Listed: a single forecast of 1 on Yes scored 0, a single forecast of 0 on
\* Yes scored 1, and an agent with three resolved forecasts whose mean has
\* more than four decimals.
C7_Witness ==
    /\ lbResp.served
    /\ \E k \in DOMAIN Lb :
         /\ Lb[k].resolvedPredictions = 1 /\ Lb[k].brierScore = 0
         /\ \E p \in ResolvedForecastsOf(Lb[k].agentId) :
              p.pYes = 100 /\ markets[p.marketId].resolvedOutcome = "Yes"
    /\ \E k \in DOMAIN Lb :
         /\ Lb[k].resolvedPredictions = 3
         /\ Lb[k].brierScore * 3 # SumSquaredError(Lb[k].agentId, Len(markets))

C9_ScoresFromResolvedOnly ==
    lbResp.served =>
      \A k \in DOMAIN Lb :
        LET a == Lb[k].agentId
            onResolved == {p \in predictions : IsResolved(p.marketId)}
            alone == AgentStats(agents, onResolved, markets, a)
        IN /\ Lb[k].totalPredictions = Cardinality(ForecastsOf(a))
           /\ Lb[k].resolvedPredictions = Cardinality(ResolvedForecastsOf(a))
           /\ Lb[k].resolvedPredictions <= Lb[k].totalPredictions
           /\ alone.brierScore = Lb[k].brierScore
           /\ alone.accuracy = Lb[k].accuracy
           /\ alone.resolvedPredictions = Lb[k].resolvedPredictions
           /\ \A m \in DOMAIN markets, pYes \in LbPYes :
                ~IsResolved(m) =>
                  LET after == AgentStats(agents,
                                          Upsert(predictions, a, m, pYes, 1),
                                          markets, a)
                  IN /\ after.brierScore = Lb[k].brierScore
                     /\ after.accuracy = Lb[k].accuracy
                     /\ after.resolvedPredictions = Lb[k].resolvedPredictions
                     /\ after.totalPredictions =
                          Lb[k].totalPredictions
                          + (IF RowsOf(predictions, a, m) = {} THEN 1 ELSE 0)

\* A listed agent has forecasts on resolved and on unresolved markets, and a
\* score other than the default.
C9_Witness ==
    /\ lbResp.served
    /\ \E k \in DOMAIN Lb :
         /\ 0 < Lb[k].resolvedPredictions
         /\ Lb[k].resolvedPredictions < Lb[k].totalPredictions
         /\ Lb[k].brierScore # DefaultBrier

\* ---- POST /predictions: the answers to its requests

\* The market's resolved outcome is set, or its end time has passed.
Closed(m) == markets[m].resolvedOutcome # Null \/ markets[m].endDate < now

\* The body passes the handler's validation of pYes and of the rationale.
ValidBody(body) ==
    /\ body.pYes >= 0 /\ body.pYes <= 100
    /\ body.rationale >= 1 /\ body.rationale <= MaxRationale

\* C11: an authenticated, valid POST /predictions that names a market whose
\* resolved outcome is set or whose end time has passed is answered 409; the
\* step that answers 409 names such a market and leaves the forecasts as they
\* are; and no request goes on to the upsert for a market closed at its check.
C11_ClosedMarketRefused ==
    /\ [](\A token \in TokenInputs, slug \in SlugInputs, body \in BodyInputs :
            (/\ getAgentFromToken(token) # 0
             /\ ValidBody(body)
             /\ FindMarket(slug) # 0
             /\ Closed(FindMarket(slug))) =>
              PredictStatus(token, slug, body.pYes, body.rationale) = 409)
    /\ [][\A r \in Reqs :
            /\ (Answers(r, "predict") /\ req'[r].status = 409) =>
                 /\ req'[r].marketId # 0
                 /\ Closed(req'[r].marketId)
                 /\ predictions' = predictions
            /\ (req[r].pc = "idle" /\ req'[r].pc = "upsert") =>
                 ~Closed(req'[r].marketId)]_vars

\* A submission was answered 409 for a market that is unresolved but past its
\* end time, while the market holds a forecast made before it ended.
C11_Witness ==
    \E r \in Reqs :
        /\ req[r].op = "predict" /\ req[r].pc = "done" /\ req[r].status = 409
        /\ markets[req[r].marketId].resolvedOutcome = Null
        /\ markets[req[r].marketId].endDate < now
        /\ RowsOf(predictions, req[r].agentId, req[r].marketId) # {}

\* C12: an authenticated POST /predictions whose pYes is outside [0,1] or
\* whose rationale is missing, empty or longer than 800 characters is answered
\* 400; the step that answers 400 stores nothing; a body on the bounds (pYes 0
\* or 1, a rationale of 1 or of 800 characters) for an open market goes on to
\* the upsert; and every stored forecast has pYes in [0,1] and a rationale of
\* 1..800 characters.
C12_InvalidBodyRefused ==
    /\ [](\A token \in TokenInputs, slug \in SlugInputs, body \in BodyInputs :
            getAgentFromToken(token) # 0 =>
              /\ ~ValidBody(body) =>
                   PredictStatus(token, slug, body.pYes, body.rationale) = 400
              /\ (/\ ValidBody(body)
                  /\ FindMarket(slug) # 0
                  /\ ~Closed(FindMarket(slug))) =>
                   PredictStatus(token, slug, body.pYes, body.rationale) = 0)
    /\ [](\A p \in predictions :
            /\ p.pYes >= 0 /\ p.pYes <= 100
            /\ p.rationale >= 1 /\ p.rationale <= MaxRationale)
    /\ [][\A r \in Reqs :
            (Answers(r, "predict") /\ req'[r].status = 400) =>
              /\ req'[r].agentId # 0
              /\ UNCHANGED <<agents, markets, predictions>>]_vars

\* Forecasts on both bounds are stored (pYes 0 with a rationale of one
\* character, pYes 1 with a rationale of 800) and an authenticated submission
\* was answered 400.
C12_Witness ==
    /\ \E p, q \in predictions :
         /\ p.pYes = 0 /\ p.rationale = 1
         /\ q.pYes = 100 /\ q.rationale = MaxRationale
    /\ \E r \in Reqs :
         /\ req[r].op = "predict" /\ req[r].pc = "done" /\ req[r].status = 400
         /\ req[r].agentId # 0

\* ---- the authenticated routes

AuthOps ==
    {"marketsTop", "market", "predict", "history", "patchProfile", "profile",
     "comment"}

\* C13: an absent token and a token no agent holds give no agent, a token an
\* agent holds gives that agent; and the step that answers a request to an
\* authenticated route answers 401 exactly when the token gave no agent, and
\* then the answer carries no record and the agents, markets, forecasts and
\* comments stay as they are.
C13_UnauthenticatedRefused ==
    /\ [](/\ \A token \in ApiTokens :
               (token = 0 \/ AgentByToken(token) = {}) =>
                 getAgentFromToken(token) = 0
          /\ \A a \in AgentIds : getAgentFromToken(agents[a].token) = a)
    /\ [][\A r \in Reqs : \A op \in AuthOps :
            Answers(r, op) =>
              /\ req'[r].agentId = 0 <=> req'[r].status = 401
              /\ req'[r].agentId = 0 =>
                   /\ req'[r].body = {}
                   /\ UNCHANGED <<agents, markets, predictions, comments>>]_vars

\* A request was answered 401 while the store holds a forecast, a comment
\* and an address, which an authenticated request could read or change.
C13_Witness ==
    /\ \E r \in Reqs : req[r].pc = "done" /\ req[r].status = 401
                       /\ req[r].op \in AuthOps
    /\ predictions # {}
    /\ comments # << >>
    /\ \E a \in AgentIds : agents[a].evmAddress # NullAddress

\* C14: the step that answers a GET /predictions with 200 carries one record
\* for each forecast of the agent of the token and no other record, so no
\* forecast of another agent; and the upsert of a submission of an agent
\* leaves what any other agent would receive as it was.
C14_OwnForecastsOnly ==
    /\ [][\A r \in Reqs :
            (Answers(r, "history") /\ req'[r].status = 200) =>
              LET a == req'[r].agentId
                  Shows(row, p) ==
                      /\ row.agentId = p.agentId
                      /\ row.marketSlug = p.marketId
                      /\ row.pYes = p.pYes
                      /\ row.rationale = p.rationale
                      /\ row.resolvedOutcome =
                           markets[p.marketId].resolvedOutcome
              IN /\ a \in AgentIds
                 /\ \A row \in req'[r].body :
                      \E p \in ForecastsOf(a) : Shows(row, p)
                 /\ \A p \in ForecastsOf(a) :
                      \E row \in req'[r].body : Shows(row, p)
                 /\ Cardinality(req'[r].body) = Cardinality(ForecastsOf(a))]_vars
    /\ [][\A r \in Reqs :
            (req[r].pc = "upsert" /\ Answers(r, "predict")) =>
              \A a \in AgentIds \ {req[r].agentId} :
                HistoryOf(predictions', markets', a) =
                  HistoryOf(predictions, markets, a)]_vars

\* An agent was answered its two forecasts while the other agent holds
\* forecasts too.
C14_Witness ==
    \E r \in Reqs :
        /\ req[r].op = "history" /\ req[r].pc = "done" /\ req[r].status = 200
        /\ Cardinality(req[r].body) = 2
        /\ \E b \in AgentIds \ {req[r].agentId} : ForecastsOf(b) # {}

\* '0x' followed by exactly 40 hexadecimal characters.
WellFormedAddress(chars) ==
    /\ Len(chars) = 42
    /\ SubSeq(chars, 1, 2) = <<"0", "x">>
    /\ \A i \in 3..42 :
         chars[i] \in {"0", "1", "2", "3", "4", "5", "6", "7", "8", "9",
                       "a", "b", "c", "d", "e", "f",
                       "A", "B", "C", "D", "E", "F"}

\* C15: the step that answers an authenticated PATCH /agents/profile stores
\* the evmAddress of the body when it is a well-formed address (200), clears
\* the stored address when it is null (200), stores nothing when the body has
\* none (200), and answers 400 with the agents as they are for any other
\* value; it changes no record but the calling agent's, and of that one only
\* the address; so a stored address is always null or well-formed.
C15_AddressValidated ==
    /\ [](\A a \in AgentIds :
            \/ agents[a].evmAddress = NullAddress
            \/ /\ agents[a].evmAddress.type = "string"
               /\ WellFormedAddress(agents[a].evmAddress.chars))
    /\ [][\A r \in Reqs :
            (Answers(r, "patchProfile") /\ req'[r].agentId # 0) =>
              LET a == req'[r].agentId
                  v == req'[r].evmAddress
              IN /\ IF v.type = "string" /\ WellFormedAddress(v.chars)
                    THEN req'[r].status = 200 /\ agents'[a].evmAddress = v
                    ELSE IF v.type = "null"
                    THEN /\ req'[r].status = 200
                         /\ agents'[a].evmAddress = NullAddress
                    ELSE IF v.type = "undefined"
                    THEN req'[r].status = 200 /\ agents' = agents
                    ELSE req'[r].status = 400 /\ agents' = agents
                 /\ DOMAIN agents' = DOMAIN agents
                 /\ \A b \in AgentIds \ {a} : agents'[b] = agents[b]
                 /\ agents'[a].name = agents[a].name
                 /\ agents'[a].token = agents[a].token
                 /\ UNCHANGED <<markets, predictions, comments>>]_vars

\* An agent that holds an address sent a string one character too long and
\* was answered 400, while the other agent holds another address.
C15_Witness ==
    \E r \in Reqs :
        /\ req[r].op = "patchProfile" /\ req[r].pc = "done"
        /\ req[r].status = 400
        /\ req[r].evmAddress.type = "string"
        /\ Len(req[r].evmAddress.chars) = 43
        /\ agents[req[r].agentId].evmAddress # NullAddress
        /\ \E b \in AgentIds :
             /\ agents[b].evmAddress # NullAddress
             /\ agents[b].evmAddress # agents[req[r].agentId].evmAddress

\* C16: every market in a 200 answer of GET /markets/top is unresolved, in
\* the store and in the answer, and ends strictly after the time of the
\* request, and the answer lists at most 100 markets, each once.
C16_TopMarketsActive ==
    [][\A r \in Reqs :
         (Answers(r, "marketsTop") /\ req'[r].status = 200) =>
           /\ \A row \in req'[r].body :
                /\ row.slug \in DOMAIN markets
                /\ markets[row.slug].resolvedOutcome = Null
                /\ row.resolvedOutcome = Null
                /\ markets[row.slug].endDate > now
                /\ row.endDate > now
           /\ Cardinality(req'[r].body) <= 100
           /\ Cardinality({row.slug : row \in req'[r].body}) =
                Cardinality(req'[r].body)]_vars

\* An answer lists 100 markets while more than 100 are active and one market
\* is not.
C16_Witness ==
    \E r \in Reqs :
        /\ req[r].op = "marketsTop" /\ req[r].pc = "done" /\ req[r].status = 200
        /\ Cardinality(req[r].body) = 100
        /\ Cardinality({m \in DOMAIN markets :
                          /\ markets[m].resolvedOutcome = Null
                          /\ markets[m].endDate > now}) > 100
        /\ \E m \in DOMAIN markets :
             markets[m].resolvedOutcome # Null \/ markets[m].endDate <= now

\* C17: within an hour the watched agent has at most 100 submissions
\* answered 201.
C17_RateLimited == hourly.agent # 0 => hourly.accepted <= 100

\* ---- the heartbeat scheduler

\* C18: at most one tick is executing; a timer firing while a tick is
\* executing starts no tick and leaves the executing tick and the sink as they
\* are; and a tick starts only in the step of a timer firing, when no tick is
\* executing, so the end of a tick starts none.
C18_TicksNeverOverlap ==
    /\ [](sched.running <= 1)
    /\ [][(sched'.firings # sched.firings /\ sched.running > 0) =>
            /\ sched'.ticks = sched.ticks
            /\ sched'.running = sched.running
            /\ sched'.left = sched.left
            /\ sched'.found = sched.found
            /\ ~Halted(sched) => sched'.skipped = sched.skipped + 1
            /\ sink' = sink]_vars
    /\ [][sched'.ticks # sched.ticks =>
            /\ sched'.ticks = sched.ticks + 1
            /\ sched'.firings = sched.firings + 1
            /\ sched.running = 0
            /\ sched'.running = 1]_vars
    /\ [][sched'.running < sched.running =>
            /\ sched'.ticks = sched.ticks
            /\ sched'.firings = sched.firings
            /\ sched'.running = 0]_vars

\* A firing was skipped, the tick it met has ended, and the firing after
\* that started the second tick.
C18_Witness ==
    /\ sched.skipped = 1
    /\ sched.firings = 3
    /\ sched.ticks = 2
    /\ sched.running = 1
    /\ Len(sink) = 1

\* C19: once stop is requested it stays requested and no tick starts; the
\* stop leaves an executing tick and the sink as they are; a tick that ends
\* hands its results to the sink, stopped or not; the state Stopped is never
\* left; and after a stop the scheduler comes to the state Stopped with the
\* results of every tick it started in the sink.
C19_StopStartsNoTick ==
    /\ [][sched.stopped =>
            /\ sched'.stopped
            /\ sched'.ticks = sched.ticks
            /\ sched'.running <= sched.running]_vars
    /\ [][(~sched.stopped /\ sched'.stopped) =>
            /\ sched'.running = sched.running
            /\ sched'.left = sched.left
            /\ sched'.found = sched.found
            /\ sink' = sink]_vars
    /\ [][sched'.running < sched.running =>
            /\ Len(sink') = Len(sink) + 1
            /\ SubSeq(sink', 1, Len(sink)) = sink
            /\ sink'[Len(sink')].tick = sched.ticks
            /\ sink'[Len(sink')].results = sched.found]_vars
    /\ [][SchedState(sched) = "Stopped" => SchedState(sched') = "Stopped"]_vars
    /\ (sched.stopped ~>
          (SchedState(sched) = "Stopped" /\ Len(sink) = sched.ticks))

\* Stop was requested while the second tick was executing; that tick has
\* ended with a result in the sink, a timer firing has followed, and the
\* scheduler is stopped.
C19_Witness ==
    /\ SchedState(sched) = "Stopped"
    /\ sched.stopTick = 2
    /\ sched.firings = 3
    /\ Len(sink) = 2
    /\ sink[2].tick = 2
    /\ sink[2].results = 1

\* ---- the submission executor

\* The submissions accepted in the 24 hours that end at t.
AcceptedIn(t) ==
    Cardinality({i \in DOMAIN exec.accepted :
                   t - 24 < exec.accepted[i] /\ exec.accepted[i] <= t})

\* C20: in the 24 hours that end at any time up to now at most
\* max_daily_predictions submissions were accepted; a call made when that
\* many are counted is rejected by the guardrail with the daily violation,
\* whatever its request, and counts nothing; and the count changes only by
\* one submission, of an executor not in dry-run mode, that the gateway
\* accepted.
C20_DailyBudgetKept ==
    /\ [](\A t \in 0..clock : AcceptedIn(t) <= exec.max_daily_predictions)
    /\ [][\A w \in Workers :
            (/\ workers[w].pc = "idle"
             /\ workers'[w].pc # "idle"
             /\ AcceptedIn(clock) >= exec.max_daily_predictions) =>
               /\ workers'[w].pc = "done"
               /\ workers'[w].outcome = "ValidationError"
               /\ "daily" \in workers'[w].violations
               /\ exec'.accepted = exec.accepted]_vars
    /\ [][exec'.accepted # exec.accepted =>
            /\ exec'.accepted = Append(exec.accepted, clock)
            /\ ~exec.dry_run_mode
            /\ \E w \in Workers :
                 /\ workers[w].pc = "calling"
                 /\ workers'[w].pc = "done"
                 /\ workers'[w].outcome = "Success"]_vars

\* C21: a call of an executor in dry-run mode ends in its first step with
\* no attempt at the gateway and the counter as it was; it fails with
\* ValidationError and the violations when its request violates a guardrail,
\* and else returns the simulated result whose response_data is the body a
\* real submission of the request returns; a dry-run executor never has a
\* caller at the gateway nor a submission counted.
C21_DryRunNoSideEffect ==
    /\ [][\A w \in Workers :
            (/\ exec.dry_run_mode
             /\ workers[w].pc = "idle"
             /\ workers'[w].pc # "idle") =>
               /\ workers'[w].pc = "done"
               /\ workers'[w].attempts = 0
               /\ workers'[w].status = NoStatus
               /\ exec' = exec
               /\ IF Violations(exec, workers'[w].request, clock) # {}
                  THEN /\ workers'[w].outcome = "ValidationError"
                       /\ workers'[w].violations =
                            Violations(exec, workers'[w].request, clock)
                       /\ workers'[w].response_data = {}
                  ELSE /\ workers'[w].outcome = "DryRun"
                       /\ workers'[w].response_data =
                            {[pYes |-> workers'[w].request.p_yes,
                              rationale |-> workers'[w].request.rationale]}]_vars
    /\ [](exec.dry_run_mode =>
            /\ exec.accepted = << >>
            /\ \A w \in Workers :
                 workers[w].pc # "calling" /\ workers[w].attempts = 0)
    /\ [](\A w \in Workers :
            workers[w].outcome = "Success" =>
              workers[w].response_data =
                {[pYes |-> workers[w].request.p_yes,
                  rationale |-> workers[w].request.rationale]})

\* In dry-run mode one call returned a simulated result and another failed
\* the guardrail.
C21_Witness ==
    /\ exec.dry_run_mode
    /\ \E w, v \in Workers :
         /\ workers[w].pc = "done" /\ workers[w].outcome = "DryRun"
         /\ workers[w].response_data # {}
         /\ workers[v].pc = "done" /\ workers[v].outcome = "ValidationError"

\* The violations of a request, each by its own condition.
Applies(v, request) ==
    IF v = "probability"
    THEN request.p_yes < 10 \/ request.p_yes > 990
    ELSE IF v = "rationale"
    THEN request.rationale < 50 \/ request.rationale > 800
    ELSE IF v = "confidence"
    THEN request.confidence < 60
    ELSE IF v = "sentiment"
    THEN exec.require_sentiment_analysis /\ ~request.sentiment
    ELSE AcceptedIn(clock) >= exec.max_daily_predictions

\* C22: a call whose request has any of the five violations ends in its
\* first step with ValidationError carrying exactly the violations that apply,
\* with no attempt at the gateway and the counter as it was; a call with none
\* does not fail with ValidationError.
C22_AllViolationsReported ==
    [][\A w \in Workers :
         (workers[w].pc = "idle" /\ workers'[w].pc # "idle") =>
            LET request == workers'[w].request
                all == {"probability", "rationale", "confidence",
                        "sentiment", "daily"}
                applying == {v \in all : Applies(v, request)}
            IN IF applying # {}
               THEN /\ workers'[w].pc = "done"
                    /\ workers'[w].outcome = "ValidationError"
                    /\ workers'[w].violations = applying
                    /\ workers'[w].attempts = 0
                    /\ workers'[w].status = NoStatus
                    /\ exec' = exec
               ELSE /\ workers'[w].outcome # "ValidationError"
                    /\ workers'[w].violations = {}]_vars

\* A call failed with all five violations at once.
C22_Witness ==
    \E w \in Workers :
        /\ workers[w].pc = "done"
        /\ workers[w].outcome = "ValidationError"
        /\ workers[w].violations =
             {"probability", "rationale", "confidence", "sentiment", "daily"}
        /\ workers[w].attempts = 0

IsolatedFailures ==
    {"EstimationFailed", "SubmissionFailedError", "MarketNotFoundError",
     "MarketClosedError", "DomainError"}

\* C24: a market processed in a tick, whatever its result, takes one market
\* off those left and leaves the tick executing; the tick ends only with none
\* left and then hands the sink a report on every market it fetched, the
\* failures counted among them; and in an executing tick every market with an
\* edge has been reported as an opportunity or, auto_predict set and no
\* AuthenticationError met, submitted.
C24_MarketFailuresIsolated ==
    /\ [][(sched.running > 0 /\ sched'.outcomes # sched.outcomes
           /\ sched'.running = sched.running) =>
            /\ Len(sched'.outcomes) = Len(sched.outcomes) + 1
            /\ SubSeq(sched'.outcomes, 1, Len(sched.outcomes)) = sched.outcomes
            /\ sched'.left = sched.left - 1
            /\ sched'.fetched = sched.fetched
            /\ sched'.found >= sched.found]_vars
    /\ [](sched.running > 0 =>
            sched.left + Len(sched.outcomes) = sched.fetched)
    /\ [][sched'.running < sched.running =>
            /\ sched.left = 0
            /\ sink'[Len(sink')].reported = sched.fetched
            /\ sink'[Len(sink')].results = sched.found
            /\ sink'[Len(sink')].failures =
                 Cardinality({i \in DOMAIN sched.outcomes :
                                sched.outcomes[i].result \in
                                  IsolatedFailures
                                  \cup {"ValidationError",
                                        "AuthenticationError"}})]_vars
    /\ [](\A i \in DOMAIN sched.outcomes :
            sched.outcomes[i].estimate = "edge" =>
              IF sched.auto_predict
                 /\ \A j \in 1..(i - 1) :
                      sched.outcomes[j].result # "AuthenticationError"
              THEN sched.outcomes[i].result \in
                     {"Success", "DryRun", "ValidationError",
                      "AuthenticationError", "MarketNotFoundError",
                      "MarketClosedError", "SubmissionFailedError"}
              ELSE sched.outcomes[i].result = "Opportunity")

\* With auto_predict set, the first tick reported on both markets it
\* fetched, one of them failed; in the second tick the first market failed
\* and the second was then submitted and accepted.
C24_Witness ==
    /\ sched.auto_predict
    /\ Len(sink) >= 1
    /\ sink[1].reported = 2
    /\ sink[1].failures = 1
    /\ sink[1].results = 1
    /\ sched.running > 0
    /\ Len(sched.outcomes) = 2
    /\ sched.outcomes[1].result \in IsolatedFailures
    /\ sched.outcomes[2].result = "Success"

\* C25: the scheduler's error is set exactly by a submission answered with
\* AuthenticationError and stays; from then on no tick starts, whatever
\* firings follow, and no market is submitted; the tick of the error hands
\* the error to the sink, and with no tick executing the scheduler is
\* Stopped.
C25_AuthErrorStops ==
    /\ [](\A i \in DOMAIN sched.outcomes :
            sched.outcomes[i].result = "AuthenticationError" =>
              sched.error = "AuthenticationError")
    /\ [][sched'.error # sched.error =>
            /\ sched.error = "none"
            /\ sched'.error = "AuthenticationError"
            /\ sched'.outcomes # << >>
            /\ sched'.outcomes[Len(sched'.outcomes)].result =
                 "AuthenticationError"]_vars
    /\ [][sched.error # "none" =>
            /\ sched'.error = sched.error
            /\ sched'.ticks = sched.ticks
            /\ sched'.running <= sched.running
            /\ Len(sched'.outcomes) > Len(sched.outcomes) =>
                 sched'.outcomes[Len(sched'.outcomes)].result \in
                   {"none", "Opportunity", "EstimationFailed", "DomainError"}
            /\ Len(sink') > Len(sink) =>
                 sink'[Len(sink')].error = "AuthenticationError"]_vars
    /\ []((sched.error # "none" /\ sched.running = 0) =>
            /\ SchedState(sched) = "Stopped"
            /\ sink # << >>
            /\ sink[Len(sink)].error = "AuthenticationError")

\* A submission of the first tick was answered with AuthenticationError;
\* the tick went on to a market with an edge, which it reported without
\* submitting, and ended; two firings followed and started nothing.
C25_Witness ==
    /\ sched.error = "AuthenticationError"
    /\ ~sched.stopped
    /\ sched.ticks = 1
    /\ sched.firings = 3
    /\ sched.running = 0
    /\ Len(sink) = 1
    /\ sink[1].error = "AuthenticationError"
    /\ sink[1].reported = 2
    /\ sink[1].results = 1

\* ---- the EV calculator

\* C26: a call with market odds strictly between 0 and 1 returns the edge
\* p_win - market_odds, favor-yes exactly for an edge above min_edge,
\* favor-no exactly for an edge below -min_edge and no-action otherwise, so
\* no-action with edge 0 when the odds equal p_win, and a Kelly fraction
\* within [0, 1] that is 0 for a negative edge.
C26_RecommendationByEdge ==
    (ev.pc = "done" /\ ev.market_odds > 0 /\ ev.market_odds < 100) =>
       /\ ev.error = "none"
       /\ ev.edge = ev.p_win - ev.market_odds
       /\ ev.recommendation \in {"favor-yes", "favor-no", "no-action"}
       /\ ev.recommendation = "favor-yes" <=> ev.edge > ev.min_edge
       /\ ev.recommendation = "favor-no" <=> ev.edge < 0 - ev.min_edge
       /\ ev.p_win = ev.market_odds =>
            ev.edge = 0 /\ ev.recommendation = "no-action"
       /\ ev.kelly_fraction >= 0
       /\ ev.kelly_fraction <= 10000
       /\ ev.edge < 0 => ev.kelly_fraction = 0
       /\ ev.edge > 0 => ev.kelly_fraction > 0

\* A call with the odds equal to the estimate and a min_edge of 0 returned
\* no-action.
C26_Witness ==
    /\ ev.pc = "done"
    /\ ev.p_win = 35
    /\ ev.market_odds = 35
    /\ ev.min_edge = 0
    /\ ev.recommendation = "no-action"
    /\ ev.kelly_fraction = 0

\* ---- races of the platform's handlers

\* The forecasts on market m in a Prediction table.
ForecastsOn(preds, m) == {p \in preds : p.marketId = m}

\* C27: in no step does the set of forecasts on a market that has a resolved
\* outcome change: none is created and none is altered, whenever the request
\* was checked.
C27_ResolvedFrozen ==
    [][\A m \in DOMAIN markets :
         markets[m].resolvedOutcome # Null =>
           ForecastsOn(predictions', m) = ForecastsOn(predictions, m)]_vars

\* C28: a POST /agents/register with a valid name is answered 201 or 409,
\* also when another registration of the name is in flight, two answers for
\* one name are never both 201, and no two agents share a name or a token.
C28_RegisterRace ==
    /\ \A r \in Reqs :
         (req[r].op = "register" /\ req[r].pc = "done" /\ req[r].name # 0) =>
            req[r].status \in {201, 409}
    /\ \A i, j \in DOMAIN agents :
         i # j => agents[i].name # agents[j].name
                  /\ agents[i].token # agents[j].token

\* C29: the step that answers a POST /predictions leaves the agents, the
\* markets and the comments as they are; answering 201 it leaves every
\* forecast other than the one of (calling agent, named market) as it is,
\* and answering anything else (400, 401, 404, 409, 500) it leaves all
\* forecasts as they are; the checks of a request change nothing; a forecast
\* is created or altered only in the upsert of a request of its own agent;
\* and the agent of a request is the holder of its token.
C29_OnlyOwnForecastChanges ==
    /\ [][\A r \in Reqs :
            /\ Answers(r, "predict") =>
                 /\ agents' = agents
                 /\ markets' = markets
                 /\ comments' = comments
                 /\ IF req'[r].status = 201
                    THEN /\ req'[r].agentId \in DOMAIN agents
                         /\ \A p \in predictions :
                              (p.agentId # req'[r].agentId
                               \/ p.marketId # req'[r].marketId) =>
                                 p \in predictions'
                         /\ \A p \in predictions' :
                              (p.agentId # req'[r].agentId
                               \/ p.marketId # req'[r].marketId) =>
                                 p \in predictions
                    ELSE /\ req'[r].status \in {400, 401, 404, 409, 500}
                         /\ predictions' = predictions
            /\ (req[r].pc = "idle" /\ req'[r].op = "predict"
                /\ req'[r].pc = "upsert") =>
                 /\ agents' = agents
                 /\ markets' = markets
                 /\ comments' = comments
                 /\ predictions' = predictions
                 /\ req'[r].agentId \in DOMAIN agents]_vars
    /\ [][\A p \in predictions' :
            p \notin predictions =>
              \E r \in Reqs :
                 /\ req[r].pc = "upsert"
                 /\ req'[r].pc = "done"
                 /\ p.agentId = req[r].agentId
                 /\ p.marketId = req[r].marketId]_vars
    /\ [](\A token \in TokenInputs :
            getAgentFromToken(token) # 0 =>
              /\ token # 0
              /\ agents[getAgentFromToken(token)].token = token)

\* Both agents hold a forecast on the market; a submission of the second
\* has just been answered 201 with another pYes than the first agent's,
\* whose forecast is there as it was.
C29_Witness ==
    /\ Len(agents) = 2
    /\ Cardinality(predictions) = 2
    /\ \E r \in Reqs :
         /\ req[r].op = "predict" /\ req[r].pc = "done" /\ req[r].status = 201
         /\ req[r].agentId = 2
         /\ \E p, q \in predictions :
              /\ p.agentId = 1 /\ q.agentId = 2
              /\ p.marketId = q.marketId
              /\ p.pYes = 0 /\ q.pYes = 100

\* C30: the first check of a POST /predictions decides its answer: 401
\* without a token an agent holds, whatever the body; else, for a JSON body,
\* 400 for a missing slug, a pYes outside [0,1] or a rationale missing or
\* over 800 characters, whatever the market; else 404 when the slug names no
\* market; else 409 when the market is resolved or past its end; else the
\* request goes on to the upsert.
C30_ChecksInOrder ==
    [][\A r \in ApiReqs :
         (req[r].pc = "idle" /\ req'[r].pc # "idle" /\ req'[r].op = "predict") =>
            LET unauthenticated ==
                  \/ sent'.token = 0
                  \/ \A a \in DOMAIN agents : agents[a].token # sent'.token
                json == sent'.rationale >= 0
                invalid ==
                  \/ sent'.slug = 0
                  \/ sent'.pYes < 0 \/ sent'.pYes > 100
                  \/ sent'.rationale < 1 \/ sent'.rationale > 800
                unknown == sent'.slug \notin DOMAIN markets
                closed ==
                  \/ markets[sent'.slug].resolvedOutcome # Null
                  \/ markets[sent'.slug].endDate < now
            IN IF unauthenticated
               THEN req'[r].pc = "done" /\ req'[r].status = 401
               ELSE json =>
                    IF invalid
                    THEN req'[r].pc = "done" /\ req'[r].status = 400
                    ELSE IF unknown
                    THEN req'[r].pc = "done" /\ req'[r].status = 404
                    ELSE IF closed
                    THEN req'[r].pc = "done" /\ req'[r].status = 409
                    ELSE req'[r].pc = "upsert"]_vars

\* An authenticated request with a pYes above 1 for a slug of no market has
\* been answered 400.
C30_Witness ==
    \E r \in ApiReqs :
        /\ req[r].op = "predict" /\ req[r].pc = "done" /\ req[r].status = 400
        /\ sent.token = 1
        /\ sent.pYes = 101
        /\ sent.rationale = 1
        /\ sent.slug = NumMarkets + 1

====
